---- MODULE Spec2Model ----
(***************************************************************************)
(* Durable state encoding of persist: the rollup and diff codecs, the      *)
(* applier-version gate, the codec gate and trace rehydration of           *)
(* persist-client/src/internal/encoding.rs.                                *)
(*                                                                         *)
(* Wire messages are records; an optional sub-message is None or Some(m);   *)
(* a Result is Ok(v) or Err(kind).  Encoded bytes are a record             *)
(* [valid, msg]: what prost's parse yields for well-formed bytes, or       *)
(* garbage.                                                                *)
(***************************************************************************)
EXTENDS Integers, Sequences, FiniteSets, TLC

\* ------------------------------------------------------------------ bounds
\* Width of a timestamp in bits (the code's is 64; arithmetic is % 2^TsBits).
TsBits == 3
\* Largest major version a process or a state carries.
MaxMajor == 3
\* Largest sequence number the shard reaches.
MaxSeqNo == 2
\* Longest list of deltas in a diff drawn as input.
MaxDeltas == 2
\* Longest list of batches in a trace drawn as input.
MaxBatches == 2
\* Largest timestamp of a frontier drawn as input.
MaxTs == 2
\* Number of entries of a wire diff whose entries are drawn in every order.
MaxEntries == 3

\* --------------------------------------------------------------- utilities
None == [some |-> FALSE]
Some(x) == [some |-> TRUE, val |-> x]
Ok(x) == [ok |-> TRUE, val |-> x]
Err(kind) == [ok |-> FALSE, err |-> kind]

Pow2(n) == 2 ^ n

RECURSIVE SetToSeq(_)
\* The elements of a finite set of integers in ascending order.
SetToSeq(S) ==
  IF S = {} THEN <<>>
  ELSE LET m == CHOOSE x \in S : \A y \in S : x <= y
       IN <<m>> \o SetToSeq(S \ {m})

Range(s) == {s[i] : i \in 1..Len(s)}

\* All sequences over S of length at most n.
SeqsUpTo(S, n) == UNION {[1..k -> S] : k \in 0..n}

\* The first error of a sequence of Results, or Ok of the sequence of values.
Collect(rs) ==
  IF \A i \in 1..Len(rs) : rs[i].ok
  THEN Ok([i \in 1..Len(rs) |-> rs[i].val])
  ELSE rs[CHOOSE i \in 1..Len(rs) : ~rs[i].ok /\ \A j \in 1..(i - 1) : rs[j].ok]

\* --------------------------------------------------------------- versions
\* A semver::Version is [major, minor, patch]; its string is the sequence of
\* its dot-separated components: <<>> is the empty string, a sequence of any
\* other length than 3 does not parse.
Version(a, b, c) == [major |-> a, minor |-> b, patch |-> c]

VersionToString(v) == <<v.major, v.minor, v.patch>>

VersionParse(s) ==
  IF Len(s) = 3 THEN Ok(Version(s[1], s[2], s[3]))
  ELSE Err("InvalidSemverVersion")

\* Ord for Version: lexicographic on (major, minor, patch).
VersionLt(a, b) ==
  \/ a.major < b.major
  \/ a.major = b.major /\ a.minor < b.minor
  \/ a.major = b.major /\ a.minor = b.minor /\ a.patch < b.patch

NoGate(build_version, applier_version) == FALSE

GateOnMajorOnly(build_version, applier_version) ==
  build_version.major < applier_version.major

\* check_applier_version: TRUE when the process halts.
check_applier_version(build_version, applier_version) ==
  VersionLt(build_version, applier_version)

EmptyVersionFailsParse(s) == VersionParse(s)

\* applier_version of a wire record: empty means an infinitely old version.
applier_version_from_proto(s) ==
  IF s = <<>> THEN Ok(Version(0, 0, 0)) ELSE VersionParse(s)

\* ------------------------------------------------------------ identifiers
\* An id is its UUID (a number).  An id string is [prefix, uuid]: its first
\* character ("" when the string is empty) and the rest as the UUID it spells,
\* or NotUuid when the rest is no UUID.
NotUuid == -1
EmptyString == [prefix |-> "", uuid |-> NotUuid]
IdString(prefix, id) == [prefix |-> prefix, uuid |-> id]

ParseIdAnyPrefix(id_prefix, encoded) ==
  IF encoded.uuid = NotUuid THEN Err("invalid uuid") ELSE Ok(encoded.uuid)

\* parse_id: the error is a message, which the callers replace.
parse_id(id_prefix, encoded) ==
  IF encoded.prefix # id_prefix THEN Err("incorrect prefix")
  ELSE IF encoded.uuid = NotUuid THEN Err("invalid uuid")
  ELSE Ok(encoded.uuid)

\* TryFromProtoError::InvalidShardId(proto): the error carries the string.
InvalidShardId(proto) == [ok |-> FALSE, err |-> "InvalidShardId", string |-> proto]

ShardId_into_proto(id) == IdString("s", id)
ShardId_from_proto(proto) ==
  IF parse_id("s", proto).ok THEN parse_id("s", proto) ELSE InvalidShardId(proto)
LeasedReaderId_into_proto(id) == IdString("r", id)
LeasedReaderId_from_proto(proto) ==
  IF parse_id("r", proto).ok THEN parse_id("r", proto) ELSE InvalidShardId(proto)
CriticalReaderId_into_proto(id) == IdString("c", id)
CriticalReaderId_from_proto(proto) ==
  IF parse_id("c", proto).ok THEN parse_id("c", proto) ELSE InvalidShardId(proto)
WriterId_into_proto(id) == IdString("w", id)
WriterId_from_proto(proto) ==
  IF parse_id("w", proto).ok THEN parse_id("w", proto) ELSE InvalidShardId(proto)
IdempotencyToken_into_proto(id) == IdString("i", id)
IdempotencyToken_from_proto(proto) ==
  IF parse_id("i", proto).ok THEN parse_id("i", proto) ELSE InvalidShardId(proto)

\* IdempotencyToken::SENTINEL.
SENTINEL == 17

\* -------------------------------------------------------------- antichains
\* T is u64 scaled to TsBits bits, totally ordered, minimum 0.
TsLeq(a, b) == a <= b
TsMinimum == 0

DecodeTsKeepsSign(x) == x

EncodeTsSaturates(x) ==
  IF x >= Pow2(TsBits - 1) THEN Pow2(TsBits - 1) - 1 ELSE x

\* i64::from_le_bytes(T::encode(x)): the same bits read as a signed integer.
EncodeTs(x) == IF x >= Pow2(TsBits - 1) THEN x - Pow2(TsBits) ELSE x
\* T::decode(x.to_le_bytes()).
DecodeTs(x) == IF x < 0 THEN x + Pow2(TsBits) ELSE x

\* An Antichain is the set of its elements.  Antichain::from keeps the
\* elements no other element is strictly below.
AntichainFrom(elements) ==
  {x \in elements : ~\E y \in elements : TsLeq(y, x) /\ y # x}

\* PartialOrder for Antichain.
AntichainLeq(a, b) == \A y \in b : \E x \in a : TsLeq(x, y)
AntichainLt(a, b) == AntichainLeq(a, b) /\ a # b

Antichain_into_proto(a) ==
  LET elems == SetToSeq(a)
  IN [elements |-> [i \in 1..Len(elems) |-> EncodeTs(elems[i])]]

AntichainKeepsAllElements(proto) ==
  Ok({DecodeTs(proto.elements[i]) : i \in 1..Len(proto.elements)})

Antichain_from_proto(proto) ==
  Ok(AntichainFrom({DecodeTs(proto.elements[i]) : i \in 1..Len(proto.elements)}))

\* into_rust_if_some: a missing sub-message is an error.
AntichainIfSome(opt) ==
  IF opt.some THEN Antichain_from_proto(opt.val) ELSE Err("InvalidPersistState")

Description_into_proto(d) ==
  [lower |-> Some(Antichain_into_proto(d.lower)),
   upper |-> Some(Antichain_into_proto(d.upper)),
   since |-> Some(Antichain_into_proto(d.since))]

Description_from_proto(proto) ==
  LET lower == AntichainIfSome(proto.lower)
      upper == AntichainIfSome(proto.upper)
      since == AntichainIfSome(proto.since)
  IN IF ~lower.ok THEN lower
     ELSE IF ~upper.ok THEN upper
     ELSE IF ~since.ok THEN since
     ELSE Ok([lower |-> lower.val, upper |-> upper.val, since |-> since.val])

\* ----------------------------------------------------------- hollow batch
HollowBatchPart_into_proto(p) ==
  [key |-> p.key, encoded_size_bytes |-> p.encoded_size_bytes]

HollowBatchPart_from_proto(proto) ==
  Ok([key |-> proto.key, encoded_size_bytes |-> proto.encoded_size_bytes])

HollowBatchWritesLegacyKeys(b) ==
  [desc |-> Some(Description_into_proto(b.desc)),
   parts |-> [i \in 1..Len(b.parts) |-> HollowBatchPart_into_proto(b.parts[i])],
   len |-> b.len,
   runs |-> b.runs,
   deprecated_keys |-> [i \in 1..Len(b.parts) |-> b.parts[i].key]]

HollowBatch_into_proto(b) ==
  [desc |-> Some(Description_into_proto(b.desc)),
   parts |-> [i \in 1..Len(b.parts) |-> HollowBatchPart_into_proto(b.parts[i])],
   len |-> b.len,
   runs |-> b.runs,
   deprecated_keys |-> <<>>]

HollowBatchKeysFirst(proto) ==
  LET parts == Collect([i \in 1..Len(proto.parts) |->
                          HollowBatchPart_from_proto(proto.parts[i])])
      migrated == [i \in 1..Len(proto.deprecated_keys) |->
                     [key |-> proto.deprecated_keys[i], encoded_size_bytes |-> 0]]
      desc == IF proto.desc.some THEN Description_from_proto(proto.desc.val)
              ELSE Err("InvalidPersistState")
  IN IF ~parts.ok THEN parts
     ELSE IF ~desc.ok THEN desc
     ELSE Ok([desc |-> desc.val,
              parts |-> migrated \o parts.val,
              len |-> proto.len,
              runs |-> proto.runs])

HollowBatch_from_proto(proto) ==
  LET parts == Collect([i \in 1..Len(proto.parts) |->
                          HollowBatchPart_from_proto(proto.parts[i])])
      migrated == [i \in 1..Len(proto.deprecated_keys) |->
                     [key |-> proto.deprecated_keys[i], encoded_size_bytes |-> 0]]
      desc == IF proto.desc.some THEN Description_from_proto(proto.desc.val)
              ELSE Err("InvalidPersistState")
  IN IF ~parts.ok THEN parts
     ELSE IF ~desc.ok THEN desc
     ELSE Ok([desc |-> desc.val,
              parts |-> parts.val \o migrated,
              len |-> proto.len,
              runs |-> proto.runs])

\* ------------------------------------------------------ readers and writers
HandleDebugState_into_proto(d) == [hostname |-> d.hostname, purpose |-> d.purpose]
HandleDebugState_from_proto(proto) ==
  Ok([hostname |-> proto.hostname, purpose |-> proto.purpose])

\* ProtoHandleDebugState::default(), what unwrap_or_default yields for None.
DefaultDebugProto == [hostname |-> "", purpose |-> ""]

\* PersistConfig::DEFAULT_READ_LEASE_DURATION in milliseconds.
DEFAULT_READ_LEASE_DURATION_MS == 900000

LeasedReaderState_into_proto(r) ==
  [seqno |-> r.seqno,
   since |-> Some(Antichain_into_proto(r.since)),
   last_heartbeat_timestamp_ms |-> r.last_heartbeat_timestamp_ms,
   lease_duration_ms |-> r.lease_duration_ms,
   debug |-> Some(HandleDebugState_into_proto(r.debug))]

LeasedReaderKeepsZeroLease(proto) ==
  LET debug == HandleDebugState_from_proto(
                 IF proto.debug.some THEN proto.debug.val ELSE DefaultDebugProto)
      since == AntichainIfSome(proto.since)
  IN IF ~debug.ok THEN debug
     ELSE IF ~since.ok THEN since
     ELSE Ok([seqno |-> proto.seqno,
              since |-> since.val,
              last_heartbeat_timestamp_ms |-> proto.last_heartbeat_timestamp_ms,
              lease_duration_ms |-> proto.lease_duration_ms,
              debug |-> debug.val])

LeasedReaderState_from_proto(proto) ==
  LET lease_duration_ms == IF proto.lease_duration_ms = 0
                           THEN DEFAULT_READ_LEASE_DURATION_MS
                           ELSE proto.lease_duration_ms
      debug == HandleDebugState_from_proto(
                 IF proto.debug.some THEN proto.debug.val ELSE DefaultDebugProto)
      since == AntichainIfSome(proto.since)
  IN IF ~debug.ok THEN debug
     ELSE IF ~since.ok THEN since
     ELSE Ok([seqno |-> proto.seqno,
              since |-> since.val,
              last_heartbeat_timestamp_ms |-> proto.last_heartbeat_timestamp_ms,
              lease_duration_ms |-> lease_duration_ms,
              debug |-> debug.val])

\* The opaque is 8 bytes, held here as the unsigned number they spell.
CriticalReaderState_into_proto(r) ==
  [since |-> Some(Antichain_into_proto(r.since)),
   opaque |-> EncodeTs(r.opaque),
   opaque_codec |-> r.opaque_codec,
   debug |-> Some(HandleDebugState_into_proto(r.debug))]

CriticalReaderDefaultsSince(proto) ==
  LET debug == HandleDebugState_from_proto(
                 IF proto.debug.some THEN proto.debug.val ELSE DefaultDebugProto)
      since == IF proto.since.some THEN Antichain_from_proto(proto.since.val)
               ELSE Ok({TsMinimum})
  IN IF ~debug.ok THEN debug
     ELSE IF ~since.ok THEN since
     ELSE Ok([since |-> since.val,
              opaque |-> DecodeTs(proto.opaque),
              opaque_codec |-> proto.opaque_codec,
              debug |-> debug.val])

CriticalReaderState_from_proto(proto) ==
  LET debug == HandleDebugState_from_proto(
                 IF proto.debug.some THEN proto.debug.val ELSE DefaultDebugProto)
      since == AntichainIfSome(proto.since)
  IN IF ~debug.ok THEN debug
     ELSE IF ~since.ok THEN since
     ELSE Ok([since |-> since.val,
              opaque |-> DecodeTs(proto.opaque),
              opaque_codec |-> proto.opaque_codec,
              debug |-> debug.val])

WriterState_into_proto(w) ==
  [last_heartbeat_timestamp_ms |-> w.last_heartbeat_timestamp_ms,
   lease_duration_ms |-> w.lease_duration_ms,
   most_recent_write_token |-> IdempotencyToken_into_proto(w.most_recent_write_token),
   most_recent_write_upper |-> Some(Antichain_into_proto(w.most_recent_write_upper)),
   debug |-> Some(HandleDebugState_into_proto(w.debug))]

WriterDefaultsTogether(proto) ==
  LET token == IF proto.most_recent_write_token = EmptyString THEN Ok(SENTINEL)
               ELSE IdempotencyToken_from_proto(proto.most_recent_write_token)
      upper == IF /\ proto.most_recent_write_upper.some
                  /\ proto.most_recent_write_token # EmptyString
               THEN Antichain_from_proto(proto.most_recent_write_upper.val)
               ELSE Ok({TsMinimum})
      debug == HandleDebugState_from_proto(
                 IF proto.debug.some THEN proto.debug.val ELSE DefaultDebugProto)
  IN IF ~token.ok THEN token
     ELSE IF ~upper.ok THEN upper
     ELSE IF ~debug.ok THEN debug
     ELSE Ok([last_heartbeat_timestamp_ms |-> proto.last_heartbeat_timestamp_ms,
              lease_duration_ms |-> proto.lease_duration_ms,
              most_recent_write_token |-> token.val,
              most_recent_write_upper |-> upper.val,
              debug |-> debug.val])

WriterState_from_proto(proto) ==
  LET token == IF proto.most_recent_write_token = EmptyString THEN Ok(SENTINEL)
               ELSE IdempotencyToken_from_proto(proto.most_recent_write_token)
      upper == IF proto.most_recent_write_upper.some
               THEN Antichain_from_proto(proto.most_recent_write_upper.val)
               ELSE Ok({TsMinimum})
      debug == HandleDebugState_from_proto(
                 IF proto.debug.some THEN proto.debug.val ELSE DefaultDebugProto)
  IN IF ~token.ok THEN token
     ELSE IF ~upper.ok THEN upper
     ELSE IF ~debug.ok THEN debug
     ELSE Ok([last_heartbeat_timestamp_ms |-> proto.last_heartbeat_timestamp_ms,
              lease_duration_ms |-> proto.lease_duration_ms,
              most_recent_write_token |-> token.val,
              most_recent_write_upper |-> upper.val,
              debug |-> debug.val])

\* -------------------------------------------------------------------- trace
\* A Trace is its since and its batches in push order.
TraceDefault == [since |-> {TsMinimum}, batches |-> <<>>]
downgrade_since(trace, since) == [trace EXCEPT !.since = since]
\* push_batch appends; the merge requests it returns are not part of the trace.
push_batch(trace, batch) == [trace EXCEPT !.batches = Append(@, batch)]
\* map_batches visits the batches in order.
map_batches(trace) == trace.batches

Trace_into_proto(trace) ==
  [since |-> Some(Antichain_into_proto(trace.since)),
   spine |-> [i \in 1..Len(map_batches(trace)) |->
                HollowBatch_into_proto(map_batches(trace)[i])]]

SinceGreaterRejects(trace_since, batch_since) == AntichainLt(batch_since, trace_since)

SinceNeverRejects(trace_since, batch_since) == FALSE

\* The test of the rehydration loop: TRUE rejects the rollup.
SinceRejects(trace_since, batch_since) == AntichainLt(trace_since, batch_since)

\* The error of a rejected rollup names the spine's since and the batch's.
SinceError(spine_since, batch_since) ==
  [ok |-> FALSE, err |-> "InvalidPersistState",
   spine_since |-> spine_since, batch_since |-> batch_since]

RECURSIVE TraceLoop(_, _, _)
\* The loop of Trace::from_proto from batch i of the spine on.
TraceLoop(ret, spine, i) ==
  IF i > Len(spine) THEN Ok(ret)
  ELSE LET batch == HollowBatch_from_proto(spine[i])
       IN IF ~batch.ok THEN batch
          ELSE IF SinceRejects(ret.since, batch.val.desc.since)
               THEN SinceError(ret.since, batch.val.desc.since)
          ELSE TraceLoop(push_batch(ret, batch.val), spine, i + 1)

Trace_from_proto(proto) ==
  LET since == AntichainIfSome(proto.since)
  IN IF ~since.ok THEN since
     ELSE TraceLoop(downgrade_since(TraceDefault, since.val), proto.spine, 1)

\* -------------------------------------------------------------------- state
SeqNo_into_proto(n) == n
SeqNo_from_proto(n) == Ok(n)
PartialBatchKey_into_proto(k) == k
PartialBatchKey_from_proto(k) == Ok(k)
PartialRollupKey_into_proto(k) == k
PartialRollupKey_from_proto(k) == Ok(k)
StringOk(v) == Ok(v)
\* The unit value, which converts from anything.
Unit == "()"
UnitKeepsBytes(u) == Ok(u)

UnitOk(u) == Ok(Unit)

\* RustType::into_proto of the type named ty.
into_proto(ty, x) ==
  CASE ty = "()" -> Unit
    [] ty = "String" -> x
    [] ty = "SeqNo" -> SeqNo_into_proto(x)
    [] ty = "PartialRollupKey" -> PartialRollupKey_into_proto(x)
    [] ty = "PartialBatchKey" -> PartialBatchKey_into_proto(x)
    [] ty = "ShardId" -> ShardId_into_proto(x)
    [] ty = "IdempotencyToken" -> IdempotencyToken_into_proto(x)
    [] ty = "LeasedReaderId" -> LeasedReaderId_into_proto(x)
    [] ty = "LeasedReaderState" -> LeasedReaderState_into_proto(x)
    [] ty = "CriticalReaderId" -> CriticalReaderId_into_proto(x)
    [] ty = "CriticalReaderState" -> CriticalReaderState_into_proto(x)
    [] ty = "WriterId" -> WriterId_into_proto(x)
    [] ty = "WriterState" -> WriterState_into_proto(x)
    [] ty = "Antichain" -> Antichain_into_proto(x)
    [] ty = "HollowBatch" -> HollowBatch_into_proto(x)

\* ProtoType::into_rust to the type named ty.
into_rust(ty, proto) ==
  CASE ty = "()" -> UnitOk(proto)
    [] ty = "String" -> StringOk(proto)
    [] ty = "SeqNo" -> SeqNo_from_proto(proto)
    [] ty = "PartialRollupKey" -> PartialRollupKey_from_proto(proto)
    [] ty = "PartialBatchKey" -> PartialBatchKey_from_proto(proto)
    [] ty = "ShardId" -> ShardId_from_proto(proto)
    [] ty = "IdempotencyToken" -> IdempotencyToken_from_proto(proto)
    [] ty = "LeasedReaderId" -> LeasedReaderId_from_proto(proto)
    [] ty = "LeasedReaderState" -> LeasedReaderState_from_proto(proto)
    [] ty = "CriticalReaderId" -> CriticalReaderId_from_proto(proto)
    [] ty = "CriticalReaderState" -> CriticalReaderState_from_proto(proto)
    [] ty = "WriterId" -> WriterId_from_proto(proto)
    [] ty = "WriterState" -> WriterState_from_proto(proto)
    [] ty = "Antichain" -> Antichain_from_proto(proto)
    [] ty = "HollowBatch" -> HollowBatch_from_proto(proto)

\* Maps are functions.  A wire map converts entry by entry (keys of type K,
\* values of type V); the first failing key or value fails the conversion.
MapIntoProto(m, K, V) ==
  [k \in {into_proto(K, id) : id \in DOMAIN m} |->
     into_proto(V, m[CHOOSE id \in DOMAIN m : into_proto(K, id) = k])]

\* Whether entry k of a wire map fails to convert.
BadEntry(m, K, V, k) == ~into_rust(K, k).ok \/ ~into_rust(V, m[k]).ok

\* The error of a failing entry: its key's, else its value's.
EntryError(key, val) == IF ~key.ok THEN key ELSE val

MapFromProto(m, K, V) ==
  IF \E k \in DOMAIN m : BadEntry(m, K, V, k)
  THEN EntryError(into_rust(K, CHOOSE k \in DOMAIN m : BadEntry(m, K, V, k)),
                  into_rust(V, m[CHOOSE k \in DOMAIN m : BadEntry(m, K, V, k)]))
  ELSE Ok([id \in {into_rust(K, k).val : k \in DOMAIN m} |->
             into_rust(V, m[CHOOSE k \in DOMAIN m : into_rust(K, k).val = id]).val])

\* State::into_proto; T is the codec name of the state's timestamp type.
State_into_proto(s, key_codec, val_codec, diff_codec, T) ==
  [applier_version |-> VersionToString(s.applier_version),
   shard_id |-> ShardId_into_proto(s.shard_id),
   seqno |-> SeqNo_into_proto(s.seqno),
   walltime_ms |-> s.walltime_ms,
   hostname |-> s.hostname,
   key_codec |-> key_codec,
   val_codec |-> val_codec,
   ts_codec |-> T,
   diff_codec |-> diff_codec,
   last_gc_req |-> SeqNo_into_proto(s.collections.last_gc_req),
   rollups |-> MapIntoProto(s.collections.rollups, "SeqNo", "PartialRollupKey"),
   leased_readers |-> MapIntoProto(s.collections.leased_readers,
                                   "LeasedReaderId", "LeasedReaderState"),
   critical_readers |-> MapIntoProto(s.collections.critical_readers,
                                     "CriticalReaderId", "CriticalReaderState"),
   writers |-> MapIntoProto(s.collections.writers, "WriterId", "WriterState"),
   trace |-> Some(Trace_into_proto(s.collections.trace))]

\* TypedState::into_proto for a state of type TypedState<K, V, T, D>.
TypedState_into_proto(s, K, V, T, D) == State_into_proto(s, K, V, D, T)

IntoProtoKeepsStoredTs(u, T) ==
  State_into_proto(u.state, u.key_codec, u.val_codec, u.diff_codec, u.ts_codec)

\* UntypedState::into_proto for an UntypedState<T>.
UntypedState_into_proto(u, T) ==
  State_into_proto(u.state, u.key_codec, u.val_codec, u.diff_codec, T)

UntypedState_from_proto(x) ==
  LET applier_version == applier_version_from_proto(x.applier_version)
      rollups == MapFromProto(x.rollups, "SeqNo", "PartialRollupKey")
      leased_readers == MapFromProto(x.leased_readers, "LeasedReaderId",
                                     "LeasedReaderState")
      critical_readers == MapFromProto(x.critical_readers, "CriticalReaderId",
                                       "CriticalReaderState")
      writers == MapFromProto(x.writers, "WriterId", "WriterState")
      trace == IF x.trace.some THEN Trace_from_proto(x.trace.val)
               ELSE Err("InvalidPersistState")
      shard_id == ShardId_from_proto(x.shard_id)
  IN IF ~applier_version.ok THEN applier_version
     ELSE IF ~rollups.ok THEN rollups
     ELSE IF ~leased_readers.ok THEN leased_readers
     ELSE IF ~critical_readers.ok THEN critical_readers
     ELSE IF ~writers.ok THEN writers
     ELSE IF ~trace.ok THEN trace
     ELSE IF ~shard_id.ok THEN shard_id
     ELSE Ok([state |-> [applier_version |-> applier_version.val,
                         shard_id |-> shard_id.val,
                         seqno |-> x.seqno,
                         walltime_ms |-> x.walltime_ms,
                         hostname |-> x.hostname,
                         collections |-> [rollups |-> rollups.val,
                                          last_gc_req |-> x.last_gc_req,
                                          leased_readers |-> leased_readers.val,
                                          critical_readers |-> critical_readers.val,
                                          writers |-> writers.val,
                                          trace |-> trace.val]],
              key_codec |-> x.key_codec,
              val_codec |-> x.val_codec,
              ts_codec |-> x.ts_codec,
              diff_codec |-> x.diff_codec])

\* --------------------------------------------------------------- wire bytes
\* prost's encode_to_vec and decode: well-formed bytes spell their message,
\* anything else fails to parse.
Encode(msg) == [valid |-> TRUE, msg |-> msg]
Garbage == [valid |-> FALSE]
Decode(buf) == IF buf.valid THEN Ok(buf.msg) ELSE Err("DecodeError")

\* Vec::new(), the bytes written for the unit value.
EmptyBytes == Encode(Unit)

\* The chunk written for a key or value of the type named ty.
EncodeAs(ty, x) == IF ty = "()" THEN EmptyBytes ELSE Encode(into_proto(ty, x))

\* ------------------------------------------------------------- field diffs
Insert(to) == [type |-> "Insert", to |-> to]
Update(from, to) == [type |-> "Update", from |-> from, to |-> to]
Delete(from) == [type |-> "Delete", from |-> from]
StateFieldDiff(key, val) == [key |-> key, val |-> val]

\* ProtoStateFieldDiffs::default(); data is the list of chunks push_data wrote.
EmptyFieldDiffs == [fields |-> <<>>, diff_types |-> <<>>, data |-> <<>>]
push_data(proto, chunk) == [proto EXCEPT !.data = Append(@, chunk)]

FieldDiffWritesNoKey(field, diff, proto, K, V) ==
  LET typed == [proto EXCEPT !.fields = Append(@, field),
                             !.diff_types = Append(@, diff.val.type)]
  IN CASE diff.val.type = "Insert" -> push_data(typed, EncodeAs(V, diff.val.to))
       [] diff.val.type = "Update" ->
            push_data(push_data(typed, EncodeAs(V, diff.val.from)), EncodeAs(V, diff.val.to))
       [] diff.val.type = "Delete" -> push_data(typed, EncodeAs(V, diff.val.from))

field_diff_into_proto(field, diff, proto, K, V) ==
  LET keyed == push_data([proto EXCEPT !.fields = Append(@, field)], EncodeAs(K, diff.key))
      typed == [keyed EXCEPT !.diff_types = Append(@, diff.val.type)]
  IN CASE diff.val.type = "Insert" -> push_data(typed, EncodeAs(V, diff.val.to))
       [] diff.val.type = "Update" ->
            push_data(push_data(typed, EncodeAs(V, diff.val.from)), EncodeAs(V, diff.val.to))
       [] diff.val.type = "Delete" -> push_data(typed, EncodeAs(V, diff.val.from))

RECURSIVE ExtendFieldDiffs(_, _, _)
\* proto followed by what entries i.. of adds wrote, in order.
ExtendFieldDiffs(proto, adds, i) ==
  IF i > Len(adds) THEN proto
  ELSE ExtendFieldDiffs([fields |-> proto.fields \o adds[i].fields,
                         diff_types |-> proto.diff_types \o adds[i].diff_types,
                         data |-> proto.data \o adds[i].data],
                        adds, i + 1)

\* The loop over diffs: each one is written after what proto already holds.
field_diffs_into_proto(field, diffs, proto, K, V) ==
  ExtendFieldDiffs(proto,
                   [i \in 1..Len(diffs) |->
                      field_diff_into_proto(field, diffs[i], EmptyFieldDiffs, K, V)],
                   1)

\* How many chunks an entry of this type holds: its key and its values.
ChunksOf(diff_type) == IF diff_type = "Update" THEN 3 ELSE 2

RECURSIVE ChunksBefore(_, _)
ChunksBefore(diff_types, i) ==
  IF i <= 1 THEN 0
  ELSE ChunksBefore(diff_types, i - 1) + ChunksOf(diff_types[i - 1])

\* ProtoStateFieldDiffs::validate.
validate(proto) ==
  /\ Len(proto.fields) = Len(proto.diff_types)
  /\ Len(proto.data) = ChunksBefore(proto.diff_types, Len(proto.diff_types) + 1)

StateFields == {"Hostname", "LastGcReq", "Rollups", "LeasedReaders",
                "CriticalReaders", "Writers", "Since", "Spine"}
DiffTypes == {"Insert", "Update", "Delete"}

\* ProtoStateFieldDiffs::iter: entry i with its chunks, or an error when the
\* arrays do not fit or a tag is unknown.
FieldDiffsIterItem(proto, i) ==
  LET at == ChunksBefore(proto.diff_types, i)
  IN IF \/ i > Len(proto.diff_types)
        \/ proto.fields[i] \notin StateFields
        \/ proto.diff_types[i] \notin DiffTypes
        \/ at + ChunksOf(proto.diff_types[i]) > Len(proto.data)
     THEN Err("InvalidPersistState")
     ELSE Ok([field |-> proto.fields[i],
              diff_type |-> proto.diff_types[i],
              key |-> proto.data[at + 1],
              from |-> IF proto.diff_types[i] = "Insert" THEN EmptyBytes
                       ELSE proto.data[at + 2],
              to |-> CASE proto.diff_types[i] = "Insert" -> proto.data[at + 2]
                       [] proto.diff_types[i] = "Update" -> proto.data[at + 3]
                       [] proto.diff_types[i] = "Delete" -> EmptyBytes])

FieldDiffsIter(proto) == [i \in 1..Len(proto.fields) |-> FieldDiffsIterItem(proto, i)]

\* VP::decode and KP::decode followed by the field's conversion.
DecodeWith(buf, ty) ==
  IF ~Decode(buf).ok THEN Err("InvalidPersistState") ELSE into_rust(ty, Decode(buf).val)

\* The first error among the decoded chunks, or none.
FirstError(parts) ==
  IF \A i \in 1..Len(parts) : parts[i].ok THEN Ok(parts)
  ELSE parts[CHOOSE i \in 1..Len(parts) :
               ~parts[i].ok /\ \A j \in 1..(i - 1) : parts[j].ok]

\* The decoded entry: its values are the chunks before the key, the last one.
DecodedFieldDiff(diff_type, parts) ==
  StateFieldDiff(parts[Len(parts)].val,
                 CASE diff_type = "Insert" -> Insert(parts[1].val)
                   [] diff_type = "Update" -> Update(parts[1].val, parts[2].val)
                   [] diff_type = "Delete" -> Delete(parts[1].val))

PushDecoded(diff_type, diffs, decoded_parts) ==
  IF ~decoded_parts.ok THEN decoded_parts
  ELSE Ok(Append(diffs, DecodedFieldDiff(diff_type, decoded_parts.val)))

PrependDecoded(diff_type, diffs, decoded_parts) ==
  IF ~decoded_parts.ok THEN decoded_parts
  ELSE Ok(<<DecodedFieldDiff(diff_type, decoded_parts.val)>> \o diffs)

FieldDiffPrepends(proto, diffs, K, V) ==
  PrependDecoded(proto.diff_type, diffs,
    FirstError(
      CASE proto.diff_type = "Insert" ->
             <<DecodeWith(proto.to, V), DecodeWith(proto.key, K)>>
        [] proto.diff_type = "Update" ->
             <<DecodeWith(proto.from, V), DecodeWith(proto.to, V),
               DecodeWith(proto.key, K)>>
        [] proto.diff_type = "Delete" ->
             <<DecodeWith(proto.from, V), DecodeWith(proto.key, K)>>))

\* field_diff_into_rust: diffs with the decoded entry pushed, or the error.
\* The values are decoded before the key.
field_diff_into_rust(proto, diffs, K, V) ==
  PushDecoded(proto.diff_type, diffs,
    FirstError(
      CASE proto.diff_type = "Insert" ->
             <<DecodeWith(proto.to, V), DecodeWith(proto.key, K)>>
        [] proto.diff_type = "Update" ->
             <<DecodeWith(proto.from, V), DecodeWith(proto.to, V),
               DecodeWith(proto.key, K)>>
        [] proto.diff_type = "Delete" ->
             <<DecodeWith(proto.from, V), DecodeWith(proto.key, K)>>))

\* --------------------------------------------------------------- StateDiff
\* StateDiff::new: a diff with no deltas.
StateDiff_new(applier_version, seqno_from, seqno_to, walltime_ms, latest_rollup_key) ==
  [applier_version |-> applier_version,
   seqno_from |-> seqno_from,
   seqno_to |-> seqno_to,
   walltime_ms |-> walltime_ms,
   latest_rollup_key |-> latest_rollup_key,
   rollups |-> <<>>, hostname |-> <<>>, last_gc_req |-> <<>>,
   leased_readers |-> <<>>, critical_readers |-> <<>>, writers |-> <<>>,
   since |-> <<>>, spine |-> <<>>]

StateDiff_into_proto(d) ==
  LET f1 == field_diffs_into_proto("Hostname", d.hostname, EmptyFieldDiffs, "()", "String")
      f2 == field_diffs_into_proto("LastGcReq", d.last_gc_req, f1, "()", "SeqNo")
      f3 == field_diffs_into_proto("Rollups", d.rollups, f2, "SeqNo", "PartialRollupKey")
      f4 == field_diffs_into_proto("LeasedReaders", d.leased_readers, f3,
                                   "LeasedReaderId", "LeasedReaderState")
      f5 == field_diffs_into_proto("CriticalReaders", d.critical_readers, f4,
                                   "CriticalReaderId", "CriticalReaderState")
      f6 == field_diffs_into_proto("Writers", d.writers, f5, "WriterId", "WriterState")
      f7 == field_diffs_into_proto("Since", d.since, f6, "()", "Antichain")
      f8 == field_diffs_into_proto("Spine", d.spine, f7, "HollowBatch", "()")
  IN [applier_version |-> VersionToString(d.applier_version),
      seqno_from |-> SeqNo_into_proto(d.seqno_from),
      seqno_to |-> SeqNo_into_proto(d.seqno_to),
      walltime_ms |-> d.walltime_ms,
      latest_rollup_key |-> PartialRollupKey_into_proto(d.latest_rollup_key),
      field_diffs |-> Some(f8)]

WithFieldInCanonicalOrder(state_diff, field, pushed) ==
  LET order == <<"Hostname", "LastGcReq", "Rollups", "LeasedReaders",
                 "CriticalReaders", "Writers", "Since", "Spine">>
      lists == <<state_diff.hostname, state_diff.last_gc_req, state_diff.rollups,
                 state_diff.leased_readers, state_diff.critical_readers,
                 state_diff.writers, state_diff.since, state_diff.spine>>
      late == \E r, q \in 1..Len(order) :
                order[r] = field /\ q > r /\ lists[q] # <<>>
  IN IF ~pushed.ok THEN pushed
     ELSE IF late THEN Ok(state_diff)
     ELSE Ok(CASE field = "Hostname" -> [state_diff EXCEPT !.hostname = pushed.val]
               [] field = "LastGcReq" -> [state_diff EXCEPT !.last_gc_req = pushed.val]
               [] field = "Rollups" -> [state_diff EXCEPT !.rollups = pushed.val]
               [] field = "LeasedReaders" ->
                    [state_diff EXCEPT !.leased_readers = pushed.val]
               [] field = "CriticalReaders" ->
                    [state_diff EXCEPT !.critical_readers = pushed.val]
               [] field = "Writers" -> [state_diff EXCEPT !.writers = pushed.val]
               [] field = "Since" -> [state_diff EXCEPT !.since = pushed.val]
               [] field = "Spine" -> [state_diff EXCEPT !.spine = pushed.val])

\* The diff with the list of one field replaced, or the error of the push.
WithField(state_diff, field, pushed) ==
  IF ~pushed.ok THEN pushed
  ELSE Ok(CASE field = "Hostname" -> [state_diff EXCEPT !.hostname = pushed.val]
            [] field = "LastGcReq" -> [state_diff EXCEPT !.last_gc_req = pushed.val]
            [] field = "Rollups" -> [state_diff EXCEPT !.rollups = pushed.val]
            [] field = "LeasedReaders" -> [state_diff EXCEPT !.leased_readers = pushed.val]
            [] field = "CriticalReaders" ->
                 [state_diff EXCEPT !.critical_readers = pushed.val]
            [] field = "Writers" -> [state_diff EXCEPT !.writers = pushed.val]
            [] field = "Since" -> [state_diff EXCEPT !.since = pushed.val]
            [] field = "Spine" -> [state_diff EXCEPT !.spine = pushed.val])

\* The match on the field of one entry: the diff with the entry pushed onto
\* the list of its field, or the error.
StateDiffPushField(state_diff, item) ==
  WithField(state_diff, item.field,
    CASE item.field = "Hostname" ->
           field_diff_into_rust(item, state_diff.hostname, "()", "String")
      [] item.field = "LastGcReq" ->
           field_diff_into_rust(item, state_diff.last_gc_req, "()", "SeqNo")
      [] item.field = "Rollups" ->
           field_diff_into_rust(item, state_diff.rollups, "SeqNo", "PartialRollupKey")
      [] item.field = "LeasedReaders" ->
           field_diff_into_rust(item, state_diff.leased_readers,
                                "LeasedReaderId", "LeasedReaderState")
      [] item.field = "CriticalReaders" ->
           field_diff_into_rust(item, state_diff.critical_readers,
                                "CriticalReaderId", "CriticalReaderState")
      [] item.field = "Writers" ->
           field_diff_into_rust(item, state_diff.writers, "WriterId", "WriterState")
      [] item.field = "Since" ->
           field_diff_into_rust(item, state_diff.since, "()", "Antichain")
      [] item.field = "Spine" ->
           field_diff_into_rust(item, state_diff.spine, "HollowBatch", "()"))

RECURSIVE StateDiffLoop(_, _, _)
RECURSIVE StateDiffLoopOn(_, _, _)
\* The loop of StateDiff::from_proto over the entries from i on.
StateDiffLoop(state_diff, items, i) ==
  IF i > Len(items) THEN Ok(state_diff)
  ELSE IF ~items[i].ok THEN items[i]
  ELSE StateDiffLoopOn(StateDiffPushField(state_diff, items[i].val), items, i + 1)

\* The loop goes on after a push unless the push failed.
StateDiffLoopOn(next, items, i) ==
  IF ~next.ok THEN next ELSE StateDiffLoop(next.val, items, i)

StateDiff_from_proto(proto) ==
  LET applier_version == applier_version_from_proto(proto.applier_version)
  IN IF ~applier_version.ok THEN applier_version
     ELSE LET state_diff == StateDiff_new(applier_version.val, proto.seqno_from,
                                          proto.seqno_to, proto.walltime_ms,
                                          proto.latest_rollup_key)
          IN IF proto.field_diffs.some
             THEN StateDiffLoop(state_diff, FieldDiffsIter(proto.field_diffs.val), 1)
             ELSE Ok(state_diff)

\* ------------------------------------------------------- encode and decode
\* What a call does: it returns a value, panics, or halts the process.
Returned(v) == [outcome |-> "returned", val |-> v]
Panicked == [outcome |-> "panicked", val |-> "internal error: invalid encoded state"]
Halted == [outcome |-> "halted", val |-> "received persist state from the future"]

StateDiff_encode(d) == Encode(StateDiff_into_proto(d))

\* The end of decode: a failed conversion panics, a future version halts.
StateDiff_checked(build_version, diff) ==
  IF ~diff.ok THEN Panicked
  ELSE IF check_applier_version(build_version, diff.val.applier_version) THEN Halted
  ELSE Returned(diff.val)

DecodeGatesBeforeConversion(build_version, buf) ==
  IF ~Decode(buf).ok THEN Panicked
  ELSE LET v == applier_version_from_proto(Decode(buf).val.applier_version)
       IN IF v.ok /\ check_applier_version(build_version, v.val) THEN Halted
          ELSE StateDiff_checked(build_version, StateDiff_from_proto(Decode(buf).val))

StateDiff_decode(build_version, buf) ==
  IF ~Decode(buf).ok THEN Panicked
  ELSE StateDiff_checked(build_version, StateDiff_from_proto(Decode(buf).val))

TypedState_encode(s, K, V, T, D) == Encode(TypedState_into_proto(s, K, V, T, D))

DecodeReturnsError(build_version, state) ==
  IF ~state.ok THEN Returned(state)
  ELSE IF check_applier_version(build_version, state.val.state.applier_version)
       THEN Halted
  ELSE Returned(state.val)

\* The end of decode: a failed conversion panics, a future version halts.
UntypedState_checked(build_version, state) ==
  IF ~state.ok THEN Panicked
  ELSE IF check_applier_version(build_version, state.val.state.applier_version)
       THEN Halted
  ELSE Returned(state.val)

UntypedState_decode(build_version, buf) ==
  IF ~Decode(buf).ok THEN Panicked
  ELSE UntypedState_checked(build_version, UntypedState_from_proto(Decode(buf).val))

\* ---------------------------------------------------------- applying diffs
\* A scalar field takes the new value of its last delta.
ApplyScalar(old, diffs) ==
  IF diffs = <<>> THEN old
  ELSE LET last == diffs[Len(diffs)].val
       IN IF last.type = "Delete" THEN old ELSE last.to

RECURSIVE ApplyMap(_, _, _)
\* A map field takes the deltas in order: Insert and Update set the key,
\* Delete removes it.
ApplyMap(m, diffs, i) ==
  IF i > Len(diffs) THEN m
  ELSE LET k == diffs[i].key
           v == diffs[i].val
           next == IF v.type = "Delete"
                   THEN [x \in (DOMAIN m) \ {k} |-> m[x]]
                   ELSE [x \in (DOMAIN m) \cup {k} |-> IF x = k THEN v.to ELSE m[x]]
       IN ApplyMap(next, diffs, i + 1)

RECURSIVE ApplySpine(_, _, _)
\* The spine takes the deltas in order: Insert pushes the batch, Delete drops it.
ApplySpine(trace, diffs, i) ==
  IF i > Len(diffs) THEN trace
  ELSE LET b == diffs[i].key
           next == IF diffs[i].val.type = "Insert" THEN push_batch(trace, b)
                   ELSE [trace EXCEPT !.batches = SelectSeq(@, LAMBDA x : x # b)]
       IN ApplySpine(next, diffs, i + 1)

ApplyDiffAnySeqno(state, diff) ==
  Ok([state EXCEPT !.applier_version = diff.applier_version,
                   !.seqno = diff.seqno_to,
                   !.walltime_ms = diff.walltime_ms])

\* State::apply_diff: the diff must start at the state's seqno.
apply_diff(state, diff) ==
  IF state.seqno # diff.seqno_from THEN Err("seqno_from mismatch")
  ELSE Ok([applier_version |-> diff.applier_version,
           shard_id |-> state.shard_id,
           seqno |-> diff.seqno_to,
           walltime_ms |-> diff.walltime_ms,
           hostname |-> ApplyScalar(state.hostname, diff.hostname),
           collections |->
             [rollups |-> ApplyMap(state.collections.rollups, diff.rollups, 1),
              last_gc_req |-> ApplyScalar(state.collections.last_gc_req, diff.last_gc_req),
              leased_readers |->
                ApplyMap(state.collections.leased_readers, diff.leased_readers, 1),
              critical_readers |->
                ApplyMap(state.collections.critical_readers, diff.critical_readers, 1),
              writers |-> ApplyMap(state.collections.writers, diff.writers, 1),
              trace |-> ApplySpine(
                          downgrade_since(state.collections.trace,
                                          ApplyScalar(state.collections.trace.since,
                                                      diff.since)),
                          diff.spine, 1)]])

\* What a call on a state does: the state it leaves and how the call ended
\* ("returned", "panicked", "halted" or "failed").
Left(outcome, state) == [outcome |-> outcome, state |-> state]

RECURSIVE State_apply_encoded_diffs(_, _, _, _)
RECURSIVE ApplyDecoded(_, _, _, _, _)
RECURSIVE ApplyOn(_, _, _, _, _)
\* State::apply_encoded_diffs from diff i on: decode each, then apply it.
State_apply_encoded_diffs(state, build_version, diffs, i) ==
  IF i > Len(diffs) THEN Left("returned", state)
  ELSE ApplyDecoded(state, build_version, diffs, i,
                    StateDiff_decode(build_version, diffs[i].data))

\* Diff i as decoded: it is applied unless the decoder panicked or halted.
ApplyDecoded(state, build_version, diffs, i, diff) ==
  IF diff.outcome # "returned" THEN Left(diff.outcome, state)
  ELSE ApplyOn(state, build_version, diffs, i, apply_diff(state, diff.val))

\* The state diff i led to: the diffs after it follow unless it failed.
ApplyOn(state, build_version, diffs, i, next) ==
  IF ~next.ok THEN Left("failed", state)
  ELSE State_apply_encoded_diffs(next.val, build_version, diffs, i + 1)

\* ------------------------------------------------------------ UntypedState
UntypedState_seqno(u) == u.state.seqno
UntypedState_rollups(u) == u.state.collections.rollups

\* The UntypedState around the state the diffs left.
Around(u, applied) == Left(applied.outcome, [u EXCEPT !.state = applied.state])

NeverApplies(u, T, build_version, diffs) == Left("returned", u)

ApplyWithoutCodecCheck(u, T, build_version, diffs) ==
  Around(u, State_apply_encoded_diffs(u.state, build_version, diffs, 1))

\* UntypedState::apply_encoded_diffs for an UntypedState<T>; cfg gives the
\* build version.
UntypedState_apply_encoded_diffs(u, T, build_version, diffs) ==
  IF T # u.ts_codec THEN Left("returned", u)
  ELSE Around(u, State_apply_encoded_diffs(u.state, build_version, diffs, 1))

CodecMismatch(requested, actual) ==
  [ok |-> FALSE, err |-> "CodecMismatch", requested |-> requested, actual |-> actual]
CodecMismatchT(requested, actual) ==
  [ok |-> FALSE, err |-> "CodecMismatchT", requested |-> requested, actual |-> actual]
AssertFailed == [outcome |-> "panicked", val |-> "assertion failed: shard_id"]

CheckCodecsIgnoresDiff(u, K, V, T, D, shard_id) ==
  IF shard_id # u.state.shard_id THEN AssertFailed
  ELSE IF K # u.key_codec \/ V # u.val_codec \/ T # u.ts_codec
       THEN Returned(CodecMismatch(<<K, V, T, D>>,
                       <<u.key_codec, u.val_codec, u.ts_codec, u.diff_codec>>))
  ELSE Returned(Ok(u.state))

CheckCodecsSwapsTuples(u, K, V, T, D, shard_id) ==
  IF shard_id # u.state.shard_id THEN AssertFailed
  ELSE IF K # u.key_codec \/ V # u.val_codec \/ T # u.ts_codec \/ D # u.diff_codec
       THEN Returned(CodecMismatch(<<u.key_codec, u.val_codec, u.ts_codec, u.diff_codec>>,
                                   <<K, V, T, D>>))
  ELSE Returned(Ok(u.state))

\* UntypedState::check_codecs::<K, V, D> on an UntypedState<T>.
check_codecs(u, K, V, T, D, shard_id) ==
  IF shard_id # u.state.shard_id THEN AssertFailed
  ELSE IF K # u.key_codec \/ V # u.val_codec \/ T # u.ts_codec \/ D # u.diff_codec
       THEN Returned(CodecMismatch(<<K, V, T, D>>,
                       <<u.key_codec, u.val_codec, u.ts_codec, u.diff_codec>>))
  ELSE Returned(Ok(u.state))

CheckTsCodecSwapsNames(u, T, shard_id) ==
  IF shard_id # u.state.shard_id THEN AssertFailed
  ELSE IF T # u.ts_codec THEN Returned(CodecMismatchT(u.ts_codec, T))
  ELSE Returned(Ok(u.state))

CheckTsCodecBeforeShard(u, T, shard_id) ==
  IF T # u.ts_codec THEN Returned(CodecMismatchT(T, u.ts_codec))
  ELSE IF shard_id # u.state.shard_id THEN AssertFailed
  ELSE Returned(Ok(u.state))

\* UntypedState::check_ts_codec on an UntypedState<T>.
check_ts_codec(u, T, shard_id) ==
  IF shard_id # u.state.shard_id THEN AssertFailed
  ELSE IF T # u.ts_codec THEN Returned(CodecMismatchT(T, u.ts_codec))
  ELSE Returned(Ok(u.state))

\* =========================================================================
\* State of the checks.  Each specification drives one part of the code and
\* leaves the variables of the others idle.
VARIABLES
  proto_trace,  \* trace harness: the wire trace handed to Trace::from_proto
  rehydrated,   \* trace harness: what Trace::from_proto returned
  input,        \* codec harness: the state (with its codecs) or diff written
  buf,          \* codec harness: the bytes encode wrote
  reader,       \* codec harness: the reading process, [build_version, T]
  decoded,      \* codec harness: how decode ended
  untyped,      \* codec harness: the UntypedState the reader holds
  call,         \* codec harness: the last call on the UntypedState
  consensus,    \* shard: the rollups by seqno and the diffs, in seqno order
  procs,        \* shard: each process's position and the state it holds
  last_commit   \* shard: who won the last compare-and-set, and what it had read

vars == <<proto_trace, rehydrated, input, buf, reader, decoded, untyped, call,
          consensus, procs, last_commit>>
traceVars == <<proto_trace, rehydrated>>
codecVars == <<input, buf, reader, decoded, untyped, call>>
shardVars == <<consensus, procs, last_commit>>

Idle == "idle"
NotRun == [ok |-> FALSE, err |-> "not run"]

\* -------------------------------------------------------- inputs: frontiers
Timestamps == 0..MaxTs
\* The frontiers of the inputs: the empty antichain and the singletons.
Antichains == {{}} \cup {{t} : t \in Timestamps}
ProtoAntichains == {Antichain_into_proto(a) : a \in Antichains}

ProtoDescription(since) ==
  [lower |-> Some(Antichain_into_proto({0})),
   upper |-> Some(Antichain_into_proto({1})),
   since |-> since]

ProtoBatch(desc, deprecated_keys) ==
  [desc |-> desc,
   parts |-> <<[key |-> "a", encoded_size_bytes |-> 5]>>,
   len |-> 4,
   runs |-> <<>>,
   deprecated_keys |-> deprecated_keys]

\* Wire batches: one per since, one in the legacy shape, one without desc.
ProtoBatches ==
  {ProtoBatch(Some(ProtoDescription(Some(a))), <<>>) : a \in ProtoAntichains}
  \cup {ProtoBatch(Some(ProtoDescription(Some(Antichain_into_proto({0})))), <<"b">>),
        ProtoBatch(None, <<>>)}

ProtoTraces ==
  [since : {None} \cup {Some(a) : a \in ProtoAntichains},
   spine : SeqsUpTo(ProtoBatches, MaxBatches)]

\* --------------------------------------------------- inputs: codec harness
Versions == {Version(a, b, 0) : a \in 1..MaxMajor, b \in 0..1}
OldVersion == Version(1, 0, 0)

\* The codecs of the writer, as in the tests: TypedState<(), (), u64, i64>.
WriterCodecs == [K |-> "()", V |-> "()", T |-> "u64", D |-> "i64"]
AlienCodec == "alien"
TheShard == 1
OtherShard == 2

EmptyCollections ==
  [rollups |-> <<>>, last_gc_req |-> 0, leased_readers |-> <<>>,
   critical_readers |-> <<>>, writers |-> <<>>, trace |-> TraceDefault]

\* TypedState::new.
TypedState_new(applier_version, shard_id, hostname, walltime_ms) ==
  [applier_version |-> applier_version, shard_id |-> shard_id, seqno |-> 0,
   walltime_ms |-> walltime_ms, hostname |-> hostname,
   collections |-> EmptyCollections]

StateWith(collections) ==
  [TypedState_new(OldVersion, TheShard, "h", 1) EXCEPT !.seqno = 1,
                                                       !.collections = collections]

DebugStates == {[hostname |-> "", purpose |-> ""],
                [hostname |-> "host", purpose |-> "purpose"]}

LeasedReaderStates ==
  [seqno : {1}, since : Antichains, last_heartbeat_timestamp_ms : {3},
   lease_duration_ms : {0, 7}, debug : DebugStates]

\* An opaque with its top bit set is negative on the wire.
CriticalReaderStates ==
  [since : Antichains, opaque : {0, Pow2(TsBits) - 1}, opaque_codec : {"u64"},
   debug : DebugStates]

WriterStates ==
  [last_heartbeat_timestamp_ms : {1}, lease_duration_ms : {2},
   most_recent_write_token : {SENTINEL, 5},
   most_recent_write_upper : Antichains, debug : DebugStates]

Batch(since, parts) ==
  [desc |-> [lower |-> {0}, upper |-> {1}, since |-> since],
   parts |-> parts, len |-> 4, runs |-> <<>>]

Batches == {Batch(a, <<[key |-> "a", encoded_size_bytes |-> 5]>>) : a \in Antichains}

\* The traces a process holds: no batch is compacted beyond the trace's since.
Traces ==
  {t \in [since : Antichains, batches : SeqsUpTo(Batches, MaxBatches)] :
     \A i \in 1..Len(t.batches) :
       \A x \in t.since : \E y \in t.batches[i].desc.since : y <= x}

CollectionsInputs ==
  {[EmptyCollections EXCEPT !.rollups = [n \in 1..k |-> "r"], !.last_gc_req = g] :
     k \in 0..MaxSeqNo, g \in 0..1}
  \cup {[EmptyCollections EXCEPT !.leased_readers = [id \in {1} |-> r]] :
          r \in LeasedReaderStates}
  \cup {[EmptyCollections EXCEPT !.critical_readers = [id \in {2} |-> r]] :
          r \in CriticalReaderStates}
  \cup {[EmptyCollections EXCEPT !.writers = [id \in {3} |-> w]] : w \in WriterStates}
  \cup {[EmptyCollections EXCEPT !.trace = t] : t \in Traces}

RollupInput(state) ==
  [kind |-> "rollup", state |-> state, K |-> WriterCodecs.K, V |-> WriterCodecs.V,
   T |-> WriterCodecs.T, D |-> WriterCodecs.D]

\* A state written by a TypedState of other key, value, timestamp or diff types.
RollupInputAs(state, K, V, T, D) ==
  [kind |-> "rollup", state |-> state, K |-> K, V |-> V, T |-> T, D |-> D]

\* One delta of a diff: the field it belongs to and the StateFieldDiff.
Delta(field, key, val) == [field |-> field, diff |-> StateFieldDiff(key, val)]

LeasedA == [seqno |-> 1, since |-> {0}, last_heartbeat_timestamp_ms |-> 3,
            lease_duration_ms |-> 7, debug |-> [hostname |-> "host", purpose |-> "p"]]
LeasedB == [LeasedA EXCEPT !.since = {1}]
LeasedZero == [LeasedA EXCEPT !.lease_duration_ms = 0]
CriticalA == [since |-> {0}, opaque |-> Pow2(TsBits) - 1, opaque_codec |-> "u64",
              debug |-> [hostname |-> "", purpose |-> ""]]
CriticalB == [CriticalA EXCEPT !.since = {}]
WriterA == [last_heartbeat_timestamp_ms |-> 1, lease_duration_ms |-> 2,
            most_recent_write_token |-> 5, most_recent_write_upper |-> {1},
            debug |-> [hostname |-> "host", purpose |-> "p"]]
WriterB == [WriterA EXCEPT !.most_recent_write_token = SENTINEL]
BatchA == Batch({0}, <<[key |-> "a", encoded_size_bytes |-> 5]>>)
BatchB == Batch({1}, <<>>)

\* Every value of the timestamp's width, as the trace's since and as the since
\* and the opaque of a critical reader.
AllTimestamps == 0..(Pow2(TsBits) - 1)
WideCollections ==
  {[EmptyCollections EXCEPT
      !.trace = [since |-> {t}, batches |-> <<>>],
      !.critical_readers = [id \in {2} |-> [CriticalA EXCEPT !.since = {t}, !.opaque = t]]] :
     t \in AllTimestamps}

\* The deltas the diffs are drawn from, by number.
DeltaList ==
  <<Delta("Hostname", Unit, Insert("h")), Delta("Hostname", Unit, Update("", "h")),
    Delta("Hostname", Unit, Delete("h")),
    Delta("LastGcReq", Unit, Update(0, 1)), Delta("LastGcReq", Unit, Insert(1)),
    Delta("Rollups", 1, Insert("r1")), Delta("Rollups", 1, Update("r1", "r2")),
    Delta("Rollups", 2, Delete("r2")),
    Delta("LeasedReaders", 1, Insert(LeasedA)),
    Delta("LeasedReaders", 1, Update(LeasedA, LeasedB)),
    Delta("LeasedReaders", 1, Delete(LeasedZero)),
    Delta("CriticalReaders", 2, Insert(CriticalA)),
    Delta("CriticalReaders", 2, Update(CriticalA, CriticalB)),
    Delta("Writers", 3, Insert(WriterA)), Delta("Writers", 3, Update(WriterA, WriterB)),
    Delta("Since", Unit, Update({0}, {1})), Delta("Since", Unit, Insert({})),
    Delta("Spine", BatchA, Insert(Unit)), Delta("Spine", BatchB, Delete(Unit))>>

\* Lists of at most MaxDeltas deltas, each given by its number.
DeltaLists == SeqsUpTo(1..Len(DeltaList), MaxDeltas)
Chosen(ns) == [i \in 1..Len(ns) |-> DeltaList[ns[i]]]

\* The deltas of one field, in the order of the list.
RECURSIVE DeltasOf(_, _, _)
DeltasOf(field, deltas, i) ==
  IF i > Len(deltas) THEN <<>>
  ELSE (IF deltas[i].field = field THEN <<deltas[i].diff>> ELSE <<>>)
       \o DeltasOf(field, deltas, i + 1)

DiffWith(applier_version, seqno_from, deltas) ==
  [StateDiff_new(applier_version, seqno_from, seqno_from + 1, 2, "rollup")
     EXCEPT !.hostname = DeltasOf("Hostname", deltas, 1),
            !.last_gc_req = DeltasOf("LastGcReq", deltas, 1),
            !.rollups = DeltasOf("Rollups", deltas, 1),
            !.leased_readers = DeltasOf("LeasedReaders", deltas, 1),
            !.critical_readers = DeltasOf("CriticalReaders", deltas, 1),
            !.writers = DeltasOf("Writers", deltas, 1),
            !.since = DeltasOf("Since", deltas, 1),
            !.spine = DeltasOf("Spine", deltas, 1)]

DiffInput(diff) == [kind |-> "diff", diff |-> diff]

\* What is written and who reads it: states and diffs of every version read by
\* every build (with the writer's timestamp type or another one), and states
\* and diffs of every content read by a build of their own version.
CodecInputs ==
  {<<RollupInput(TypedState_new(v, TheShard, "", 0)), [build_version |-> b, T |-> t]>> :
     v \in Versions, b \in Versions, t \in {WriterCodecs.T, AlienCodec}}
  \cup {<<RollupInput(StateWith(c)), [build_version |-> OldVersion, T |-> WriterCodecs.T]>> :
          c \in CollectionsInputs}
  \cup {<<RollupInputAs(TypedState_new(OldVersion, TheShard, "", 0), k, v, t, d),
          [build_version |-> OldVersion, T |-> rt]>> :
          k \in {WriterCodecs.K, AlienCodec}, v \in {WriterCodecs.V, AlienCodec},
          t \in {WriterCodecs.T, AlienCodec}, d \in {WriterCodecs.D, AlienCodec},
          rt \in {WriterCodecs.T, AlienCodec}}
  \cup {<<RollupInput(StateWith(c)), [build_version |-> OldVersion, T |-> WriterCodecs.T]>> :
          c \in WideCollections}
  \cup {<<DiffInput(DiffWith(v, 0, <<>>)), [build_version |-> b, T |-> WriterCodecs.T]>> :
          v \in Versions, b \in Versions}
  \cup {<<DiffInput(DiffWith(OldVersion, 0, Chosen(ns))),
          [build_version |-> OldVersion, T |-> WriterCodecs.T]>> :
          ns \in DeltaLists}

\* VersionedData: the encoded diffs handed to apply_encoded_diffs.
VersionedData(seqno, data) == [seqno |-> seqno, data |-> data]

EncodedDiffs ==
  {VersionedData(n + 1, StateDiff_encode(
                          DiffWith(v, n, <<Delta("Rollups", n + 1, Insert("r"))>>))) :
     n \in 0..(MaxSeqNo - 1), v \in {OldVersion, Version(MaxMajor, 0, 0)}}
  \cup {VersionedData(1, Garbage)}

\* ----------------------------------------------------------- trace harness
TraceInit ==
  /\ proto_trace \in ProtoTraces
  /\ rehydrated = NotRun
  /\ input = Idle /\ buf = Idle /\ reader = Idle
  /\ decoded = Idle /\ untyped = Idle /\ call = Idle
  /\ consensus = Idle /\ procs = Idle /\ last_commit = Idle

\* Trace::from_proto on the wire trace.
Rehydrate ==
  /\ rehydrated = NotRun
  /\ rehydrated' = Trace_from_proto(proto_trace)
  /\ UNCHANGED <<proto_trace, codecVars, shardVars>>

TraceNext == Rehydrate

SpecTrace == TraceInit /\ [][TraceNext]_vars

\* ----------------------------------------------------------- codec harness
NoBuf == [valid |-> FALSE, written |-> FALSE]
NotDecoded == [outcome |-> "none"]
NoState == [held |-> FALSE]
Held(u) == [held |-> TRUE, u |-> u]
NoCall == [op |-> "none", outcome |-> "returned"]

CodecInit ==
  /\ \E written \in CodecInputs : input = written[1] /\ reader = written[2]
  /\ buf = NoBuf
  /\ decoded = NotDecoded
  /\ untyped = NoState
  /\ call = NoCall
  /\ proto_trace = Idle /\ rehydrated = Idle
  /\ consensus = Idle /\ procs = Idle /\ last_commit = Idle

\* TypedState::encode.
EncodeState ==
  /\ input.kind = "rollup"
  /\ buf = NoBuf
  /\ buf' = TypedState_encode(input.state, input.K, input.V, input.T, input.D)
  /\ UNCHANGED <<input, reader, decoded, untyped, call, traceVars, shardVars>>

\* StateDiff::encode.
EncodeDiff ==
  /\ input.kind = "diff"
  /\ buf = NoBuf
  /\ buf' = StateDiff_encode(input.diff)
  /\ UNCHANGED <<input, reader, decoded, untyped, call, traceVars, shardVars>>

\* UntypedState::<T>::decode by the reader.
DecodeState ==
  /\ input.kind = "rollup"
  /\ buf # NoBuf
  /\ decoded = NotDecoded
  /\ decoded' = UntypedState_decode(reader.build_version, buf)
  /\ untyped' = IF decoded'.outcome = "returned" THEN Held(decoded'.val) ELSE NoState
  /\ UNCHANGED <<input, buf, reader, call, traceVars, shardVars>>

\* StateDiff::decode by the reader.
DecodeDiff ==
  /\ input.kind = "diff"
  /\ buf # NoBuf
  /\ decoded = NotDecoded
  /\ decoded' = StateDiff_decode(reader.build_version, buf)
  /\ UNCHANGED <<input, buf, reader, untyped, call, traceVars, shardVars>>

\* The reader's process runs on: no earlier call panicked, halted or failed.
Running == call.outcome = "returned"

\* The record of a call of apply_encoded_diffs.
ApplyCall(diffs, before, res) ==
  [op |-> "apply_encoded_diffs", diffs |-> diffs, before |-> before,
   outcome |-> res.outcome, after |-> res.state]

\* UntypedState::apply_encoded_diffs with some encoded diffs.
ApplyEncodedDiffs(diffs) ==
  /\ untyped.held
  /\ Running
  /\ call' = ApplyCall(diffs, untyped.u,
                       UntypedState_apply_encoded_diffs(untyped.u, reader.T,
                                                        reader.build_version, diffs))
  /\ untyped' = Held(call'.after)
  /\ UNCHANGED <<input, buf, reader, decoded, traceVars, shardVars>>

\* UntypedState::check_codecs::<K, V, D>(shard_id), which consumes the state.
CheckCodecs(K, V, D, shard_id) ==
  /\ untyped.held
  /\ Running
  /\ LET res == check_codecs(untyped.u, K, V, reader.T, D, shard_id)
     IN call' = [op |-> "check_codecs", K |-> K, V |-> V, D |-> D,
                 shard_id |-> shard_id, before |-> untyped.u,
                 outcome |-> res.outcome, result |-> res.val]
  /\ untyped' = NoState
  /\ UNCHANGED <<input, buf, reader, decoded, traceVars, shardVars>>

\* UntypedState::check_ts_codec(shard_id), which consumes the state.
CheckTsCodec(shard_id) ==
  /\ untyped.held
  /\ Running
  /\ LET res == check_ts_codec(untyped.u, reader.T, shard_id)
     IN call' = [op |-> "check_ts_codec", shard_id |-> shard_id, before |-> untyped.u,
                 outcome |-> res.outcome, result |-> res.val]
  /\ untyped' = NoState
  /\ UNCHANGED <<input, buf, reader, decoded, traceVars, shardVars>>

\* What the caller can ask of an UntypedState<T> it holds without consuming
\* it: seqno(), rollups() and, through RustType, into_proto().
Observations == {"seqno", "rollups", "into_proto"}

ObservationOf(op, u, T) ==
  CASE op = "seqno" -> UntypedState_seqno(u)
    [] op = "rollups" -> UntypedState_rollups(u)
    [] op = "into_proto" -> UntypedState_into_proto(u, T)

\* The caller reads from the UntypedState it holds; no check has succeeded on
\* it (a check consumes it).
Observe(op) ==
  /\ untyped.held
  /\ Running
  /\ call' = [op |-> op, before |-> untyped.u, outcome |-> "returned",
              result |-> ObservationOf(op, untyped.u, reader.T)]
  /\ UNCHANGED <<input, buf, reader, decoded, untyped, traceVars, shardVars>>

CodecNext ==
  \/ EncodeState
  \/ EncodeDiff
  \/ DecodeState
  \/ DecodeDiff
  \/ \E diffs \in SeqsUpTo(EncodedDiffs, 2) : ApplyEncodedDiffs(diffs)
  \/ \E K \in {WriterCodecs.K, AlienCodec}, V \in {WriterCodecs.V, AlienCodec},
        D \in {WriterCodecs.D, AlienCodec}, shard_id \in {TheShard, OtherShard} :
       CheckCodecs(K, V, D, shard_id)
  \/ \E shard_id \in {TheShard, OtherShard} : CheckTsCodec(shard_id)
  \/ \E op \in Observations : Observe(op)

SpecCodec == CodecInit /\ [][CodecNext]_vars

\* The wire trace lacks no sub-message: its since and every desc are there.
TraceInputComplete ==
  /\ proto_trace.since.some
  /\ \A i \in 1..Len(proto_trace.spine) : proto_trace.spine[i].desc.some

\* The frontier a wire antichain spells.
WireFrontier(proto) ==
  LET ts == {DecodeTs(proto.elements[i]) : i \in 1..Len(proto.elements)}
  IN {x \in ts : \A y \in ts : y >= x}

Since0 == WireFrontier(proto_trace.since.val)
BatchSince(i) == WireFrontier(proto_trace.spine[i].desc.val.since.val)
StrictlyBelow(a, b) == (\A y \in b : \E x \in a : x <= y) /\ a # b

\* C8 (as amended): rehydration of a rollup (since_0, B1..Bn) rejects it with
\* InvalidPersistState at the first batch Bi for which the trace's since is
\* strictly LESS than Bi.desc.since in the antichain order, the error naming
\* both frontiers; when there is no such batch every batch is pushed, in order.
C8_RejectsAtFirstBatchAheadOfSince ==
  (rehydrated # NotRun /\ TraceInputComplete) =>
    LET ahead == {i \in 1..Len(proto_trace.spine) : StrictlyBelow(Since0, BatchSince(i))}
    IN IF ahead = {}
       THEN /\ rehydrated.ok
            /\ rehydrated.val.since = Since0
            /\ Len(rehydrated.val.batches) = Len(proto_trace.spine)
            /\ \A i \in 1..Len(proto_trace.spine) :
                 rehydrated.val.batches[i] = HollowBatch_from_proto(proto_trace.spine[i]).val
       ELSE LET first == CHOOSE i \in ahead : \A j \in ahead : i <= j
            IN rehydrated = SinceError(Since0, BatchSince(first))

\* C8 witness: a rollup rejected at its second batch, the first one pushed.
C8_Witness ==
  /\ TraceInputComplete
  /\ Len(proto_trace.spine) = 2
  /\ ~StrictlyBelow(Since0, BatchSince(1))
  /\ StrictlyBelow(Since0, BatchSince(2))
  /\ rehydrated # NotRun
  /\ ~rehydrated.ok

\* C8 as stated: the rollup is rejected at the first batch for which the
\* trace's since is strictly GREATER than the batch's since, and every other
\* batch is pushed.
C8_AsStated ==
  (rehydrated # NotRun /\ TraceInputComplete) =>
    LET behind == {i \in 1..Len(proto_trace.spine) : StrictlyBelow(BatchSince(i), Since0)}
    IN IF behind = {}
       THEN /\ rehydrated.ok
            /\ Len(rehydrated.val.batches) = Len(proto_trace.spine)
       ELSE ~rehydrated.ok

\* C9 (as amended): in every trace Trace::from_proto returns, the trace's since
\* is not strictly less than the since of any batch of the trace (for a totally
\* ordered timestamp: batch.desc.since <= trace.since).
C9_NoBatchAheadOfSince ==
  rehydrated.ok =>
    \A i \in 1..Len(rehydrated.val.batches) :
      ~StrictlyBelow(rehydrated.val.since, rehydrated.val.batches[i].desc.since)

\* C9 witness: a returned trace holding a batch whose since differs from the
\* trace's.
C9_Witness ==
  /\ rehydrated.ok
  /\ \E i \in 1..Len(rehydrated.val.batches) :
       rehydrated.val.batches[i].desc.since # rehydrated.val.since

\* C9 as stated: trace.since <= batch.desc.since for every batch of a returned
\* trace.
C9_AsStated ==
  rehydrated.ok =>
    \A i \in 1..Len(rehydrated.val.batches) :
      LET a == rehydrated.val.since
          b == rehydrated.val.batches[i].desc.since
      IN \A y \in b : \E x \in a : x <= y

\* --------------------------------------------------- claims: codec harness
\* The applier version of what was written.
WrittenVersion ==
  IF input.kind = "rollup" THEN input.state.applier_version
  ELSE input.diff.applier_version

\* C1: for every encoded rollup and every encoded diff, decode by a build
\* strictly older than the written applier_version halts the process and
\* returns nothing; decode by a build of that version or a newer one returns.
C1_DecodeHaltsExactlyOnFutureVersion ==
  decoded # NotDecoded =>
    IF VersionLt(reader.build_version, WrittenVersion)
    THEN decoded.outcome = "halted" /\ untyped = NoState
    ELSE decoded.outcome = "returned"

\* C1 witness: a diff of the reader's major version but a newer minor version
\* halted the reader.
C1_Witness ==
  /\ input.kind = "diff"
  /\ decoded.outcome = "halted"
  /\ reader.build_version.major = WrittenVersion.major
  /\ reader.build_version.minor < WrittenVersion.minor

\* The call is check_codecs with the writer's codecs and shard id, on the
\* state as decode returned it.
CheckedAsWritten ==
  /\ call.op = "check_codecs"
  /\ decoded.outcome = "returned"
  /\ call.before = decoded.val
  /\ call.shard_id = input.state.shard_id
  /\ call.K = input.K /\ call.V = input.V /\ reader.T = input.T /\ call.D = input.D

NoZeroLease(state) ==
  \A id \in DOMAIN state.collections.leased_readers :
    state.collections.leased_readers[id].lease_duration_ms # 0

LeasedOf(val) ==
  CASE val.type = "Insert" -> {val.to}
    [] val.type = "Update" -> {val.from, val.to}
    [] val.type = "Delete" -> {val.from}

NoZeroLeaseDiff(diff) ==
  \A i \in 1..Len(diff.leased_readers) :
    \A r \in LeasedOf(diff.leased_readers[i].val) : r.lease_duration_ms # 0

\* C4 (as amended): for every StateDiff d in which no leased reader state has
\* lease_duration_ms = 0, encode followed by decode by a build not older than
\* d.applier_version yields a diff equal to d, every per-field list in its
\* original order.
C4_DiffRoundTrip ==
  (input.kind = "diff" /\ decoded.outcome = "returned" /\ NoZeroLeaseDiff(input.diff))
    => decoded.val = input.diff

\* C4 witness: a diff with two different deltas on one field came back equal.
C4_Witness ==
  /\ input.kind = "diff"
  /\ decoded.outcome = "returned"
  /\ Len(input.diff.leased_readers) = 2
  /\ input.diff.leased_readers[1] # input.diff.leased_readers[2]
  /\ NoZeroLeaseDiff(input.diff)
  /\ decoded.val = input.diff

\* C4 as stated: the round trip yields a diff equal to d for every d.
C4_AsStated ==
  (input.kind = "diff" /\ decoded.outcome = "returned") => decoded.val = input.diff

\* The requested codec names all equal those the state was written with.
SameCodecs ==
  call.K = input.K /\ call.V = input.V /\ reader.T = input.T /\ call.D = input.D

\* C5: on an UntypedState decoded from a state written with codecs (k,v,t,d)
\* and checked with the matching shard id, check_codecs returns Ok exactly when
\* the four requested codec names equal (k,v,t,d) and a CodecMismatch error
\* when at least one differs; on Ok it returns the held state unchanged.
C5_CheckCodecsOkIffAllEqual ==
  (call.op = "check_codecs" /\ call.shard_id = input.state.shard_id) =>
    /\ call.outcome = "returned"
    /\ call.result.ok <=> SameCodecs
    /\ call.result.ok => call.result.val = call.before.state
    /\ ~call.result.ok =>
         /\ call.result.err = "CodecMismatch"
         /\ call.result.actual = <<input.K, input.V, input.T, input.D>>

\* C5 witness: only the diff codec differed from the written one, and
\* check_codecs returned the error.
C5_Witness ==
  /\ call.op = "check_codecs"
  /\ call.shard_id = input.state.shard_id
  /\ call.K = input.K /\ call.V = input.V /\ reader.T = input.T
  /\ call.D # input.D
  /\ ~call.result.ok

\* C6: apply_encoded_diffs on a state whose stored ts_codec differs from T's
\* codec name returns with the whole UntypedState unchanged, whatever the
\* encoded diffs are, and decodes none of them (bytes that would panic or halt
\* the decoder do neither).
C6_ApplyIsNoOpOnTsCodecMismatch ==
  (call.op = "apply_encoded_diffs" /\ reader.T # call.before.ts_codec) =>
    /\ call.outcome = "returned"
    /\ call.after = call.before
    /\ untyped = Held(call.before)

\* C6 witness: with a mismatching timestamp codec, a diff that starts at the
\* state's seqno and bytes that do not parse were handed over.
C6_Witness ==
  /\ call.op = "apply_encoded_diffs"
  /\ reader.T # call.before.ts_codec
  /\ Len(call.diffs) = 2
  /\ call.diffs[1].data.valid
  /\ call.diffs[1].data.msg.seqno_from = call.before.state.seqno
  /\ ~call.diffs[2].data.valid

\* Diff i of the call as the reader decodes it.
CallDiff(i) == StateDiff_decode(reader.build_version, call.diffs[i].data)

\* The seqno diff i of the call meets when every diff before it applied.
SeqnoBefore(i) ==
  IF i = 1 THEN call.before.state.seqno ELSE CallDiff(i - 1).val.seqno_to

\* The diffs of the call whose seqno_from is not the seqno they meet.
OutOfSequence == {i \in 1..Len(call.diffs) : CallDiff(i).val.seqno_from # SeqnoBefore(i)}

\* C10: applying a diff whose seqno_from is not the current seqno of the state
\* fails and does not advance the state: the call fails at the first such
\* diff and leaves the seqno the diffs before it led to (the whole state
\* unchanged when it is the first diff); so the same diff applied twice in a
\* row fails the second time.
C10_SeqnoFromMismatchFails ==
  (/\ call.op = "apply_encoded_diffs"
   /\ reader.T = call.before.ts_codec
   /\ \A i \in 1..Len(call.diffs) : CallDiff(i).outcome = "returned"
   /\ OutOfSequence # {}) =>
    LET first == CHOOSE i \in OutOfSequence : \A j \in OutOfSequence : i <= j
    IN /\ call.outcome = "failed"
       /\ call.after.state.seqno = SeqnoBefore(first)
       /\ first = 1 => call.after = call.before

\* C10 witness: the same diff was applied twice in a row; the first
\* application advanced the seqno and the second failed.
C10_Witness ==
  /\ call.op = "apply_encoded_diffs"
  /\ reader.T = call.before.ts_codec
  /\ Len(call.diffs) = 2
  /\ call.diffs[1] = call.diffs[2]
  /\ call.diffs[1].data.valid
  /\ call.outcome = "failed"
  /\ call.after.state.seqno = call.before.state.seqno + 1

\* ------------------------------------------------------------------- shard
\* Processes of different builds on one shard: each reads the latest rollup
\* and the diffs after it, and then repeats modify -> encode -> compare-and-set,
\* re-reading the diffs it missed when it loses.  Consensus is linearizable: a
\* read sees all of it, a compare-and-set is one step.
Procs == 1..MaxMajor
BuildOf(p) == Version(p, 0, 0)

NotStarted == [pc |-> "idle", state |-> NoState, seen |-> {}]

\* The applier version an encoded rollup or diff carries.
WireVersion(data) == applier_version_from_proto(data.msg.applier_version).val
WireVersions(datas) == {WireVersion(datas[i].data) : i \in 1..Len(datas)}

\* The seqno of the latest rollup.
LatestRollup == CHOOSE n \in DOMAIN consensus.rollups :
                  \A m \in DOMAIN consensus.rollups : m <= n
DiffsAfter(seqno) == SubSeq(consensus.diffs, seqno + 1, Len(consensus.diffs))

\* Shard-init: one process creates the state at SeqNo 0 with its build version.
ShardInit ==
  /\ \E creator \in Procs :
       /\ consensus =
            [rollups |-> [n \in {0} |->
                            TypedState_encode(
                              TypedState_new(BuildOf(creator), TheShard, "", 0),
                              WriterCodecs.K, WriterCodecs.V, WriterCodecs.T,
                              WriterCodecs.D)],
             diffs |-> <<>>]
       /\ last_commit = [build |-> BuildOf(creator), seen |-> {}]
  /\ procs = [p \in Procs |-> NotStarted]
  /\ proto_trace = Idle /\ rehydrated = Idle
  /\ input = Idle /\ buf = Idle /\ reader = Idle
  /\ decoded = Idle /\ untyped = Idle /\ call = Idle

\* What a process holds after its read: the checked state and the versions
\* it decoded, or the end of the process when a call halted or panicked.
Started(applied, seen) ==
  IF applied.outcome # "returned"
  THEN [pc |-> applied.outcome, state |-> NoState, seen |-> seen]
  ELSE [pc |-> "ready",
        state |-> check_codecs(applied.state, WriterCodecs.K, WriterCodecs.V,
                               WriterCodecs.T, WriterCodecs.D, TheShard).val.val,
        seen |-> seen]

\* The diffs are applied to the rollup unless its decode halted or panicked.
Caught(p, dec, live) ==
  IF dec.outcome # "returned" THEN Left(dec.outcome, NoState)
  ELSE UntypedState_apply_encoded_diffs(dec.val, WriterCodecs.T, BuildOf(p), live)

\* A process starts: decode the latest rollup, apply the diffs after it, check
\* the codecs.  A call that halts or panics ends the process.
Fetch(p) ==
  /\ procs[p].pc = "idle"
  /\ procs' = [procs EXCEPT ![p] =
       Started(Caught(p, UntypedState_decode(BuildOf(p), consensus.rollups[LatestRollup]),
                      DiffsAfter(LatestRollup)),
               {WireVersion(consensus.rollups[LatestRollup])}
                 \cup WireVersions(DiffsAfter(LatestRollup)))]
  /\ UNCHANGED <<consensus, last_commit, traceVars, codecVars>>

\* The modification of a commit: the GC watermark moves to the new seqno.
Modification(state) ==
  DiffWith(state.applier_version, state.seqno,
           <<Delta("LastGcReq", Unit,
                   Update(state.collections.last_gc_req, state.seqno + 1))>>)

\* The compare-and-set of a modification wins: the process's state is at the
\* head.  The diff and the new state carry the process's build version.
CommitWith(p, modification) ==
  /\ procs[p].pc = "ready"
  /\ procs[p].state.seqno = Len(consensus.diffs)
  /\ procs[p].state.seqno < MaxSeqNo
  /\ LET diff == [modification EXCEPT !.applier_version = BuildOf(p)]
         next == apply_diff(procs[p].state, diff)
     IN /\ consensus' = [consensus EXCEPT !.diffs =
                           Append(@, VersionedData(diff.seqno_to, StateDiff_encode(diff)))]
        /\ procs' = [procs EXCEPT ![p].state = next.val]
  /\ last_commit' = [build |-> BuildOf(p), seen |-> procs[p].seen]
  /\ UNCHANGED <<traceVars, codecVars>>

\* A process commits the move of the GC watermark.
Commit(p) == CommitWith(p, Modification(procs[p].state))

\* What a process holds after applying the diffs it missed.
Retried(proc, applied, versions) ==
  IF applied.outcome # "returned" THEN [proc EXCEPT !.pc = applied.outcome]
  ELSE [proc EXCEPT !.state = applied.state, !.seen = @ \cup versions]

\* The compare-and-set loses: the process applies the diffs it missed to the
\* state it holds.
Retry(p) ==
  /\ procs[p].pc = "ready"
  /\ procs[p].state.seqno < Len(consensus.diffs)
  /\ procs' = [procs EXCEPT ![p] =
       Retried(@, State_apply_encoded_diffs(@.state, BuildOf(p),
                                            DiffsAfter(@.state.seqno), 1),
               WireVersions(DiffsAfter(@.state.seqno)))]
  /\ UNCHANGED <<consensus, last_commit, traceVars, codecVars>>

\* A process writes the rollup of the state it holds.
WriteRollup(p) ==
  /\ procs[p].pc = "ready"
  /\ procs[p].state.seqno \notin DOMAIN consensus.rollups
  /\ consensus' = [consensus EXCEPT !.rollups =
                     [n \in DOMAIN @ \cup {procs[p].state.seqno} |->
                        IF n \in DOMAIN @ THEN @[n]
                        ELSE TypedState_encode(procs[p].state, WriterCodecs.K,
                                               WriterCodecs.V, WriterCodecs.T,
                                               WriterCodecs.D)]]
  /\ UNCHANGED <<procs, last_commit, traceVars, codecVars>>

ShardNext ==
  \E p \in Procs : Fetch(p) \/ Commit(p) \/ Retry(p) \/ WriteRollup(p)

SpecShard == ShardInit /\ [][ShardNext]_vars

\* ------------------------------------------------------------------- chain
\* The same shard with modifications of every field, committed by the oldest
\* and the newest build.
ChainProcs == {1, MaxMajor}

\* The modifications a process may commit, as the diff from the state it
\* holds: the GC watermark moves; a rollup is added and then replaced; a
\* leased reader without a lease registers or expires; the since advances and
\* a batch is pushed or dropped.
Modifications(state) ==
  {Modification(state),
   DiffWith(state.applier_version, state.seqno,
            <<Delta("Rollups", state.seqno + 1, Insert("r1")),
              Delta("Rollups", state.seqno + 1, Update("r1", "r2"))>>),
   DiffWith(state.applier_version, state.seqno,
            IF 1 \in DOMAIN state.collections.leased_readers
            THEN <<Delta("LeasedReaders", 1, Delete(state.collections.leased_readers[1]))>>
            ELSE <<Delta("LeasedReaders", 1, Insert(LeasedZero))>>),
   DiffWith(state.applier_version, state.seqno,
            <<Delta("Since", Unit, Update(state.collections.trace.since, {1})),
              IF BatchA \in Range(state.collections.trace.batches)
              THEN Delta("Spine", BatchA, Delete(Unit))
              ELSE Delta("Spine", BatchA, Insert(Unit))>>)}

\* A process commits one of the modifications.
CommitAny(p) ==
  /\ procs[p].pc = "ready"
  /\ \E modification \in Modifications(procs[p].state) : CommitWith(p, modification)

ChainNext ==
  \E p \in ChainProcs : Fetch(p) \/ CommitAny(p) \/ Retry(p) \/ WriteRollup(p)

SpecChain == ShardInit /\ [][ChainNext]_vars

\* The applier versions of the persisted states, seqno 0 first.
PersistedVersions ==
  <<WireVersion(consensus.rollups[0])>>
  \o [i \in 1..Len(consensus.diffs) |-> WireVersion(consensus.diffs[i].data)]

\* C2: in any interleaving of processes of different builds on one shard, the
\* winner of a compare-and-set had decoded no rollup and no diff of an
\* applier_version greater than its build version, and the applier_version of
\* successively persisted states never decreases.
C2_NoCommitFromFutureState ==
  /\ \A v \in last_commit.seen : ~VersionLt(last_commit.build, v)
  /\ \A i \in 1..(Len(PersistedVersions) - 1) :
       ~VersionLt(PersistedVersions[i + 1], PersistedVersions[i])
  /\ \A n \in DOMAIN consensus.rollups :
       WireVersion(consensus.rollups[n]) = PersistedVersions[n + 1]

\* C2 witness: a process holding a state was halted by the diff of a newer
\* build, and another commit followed.
C2_Witness ==
  /\ \E p \in Procs :
       /\ procs[p].pc = "halted"
       /\ procs[p].state # NoState
       /\ VersionLt(BuildOf(p), PersistedVersions[2])
  /\ Len(consensus.diffs) = 2

\* The UntypedState with every field of State that depends on T (the trace
\* and the reader and writer states, which hold frontiers) reset.
WithoutTs(u) ==
  [u EXCEPT !.state.collections.trace = TraceDefault,
            !.state.collections.leased_readers = <<>>,
            !.state.collections.critical_readers = <<>>,
            !.state.collections.writers = <<>>]

\* C7 as stated: on an UntypedState on which no check has succeeded, nothing
\* the caller reads depends on a T-dependent field of the inner State: what it
\* reads is what it would read with those fields reset, so only T-independent
\* data is exposed.
C7_AsStated ==
  call.op \in Observations =>
    call.result = ObservationOf(call.op, WithoutTs(call.before), reader.T)

\* ------------------------------------------------------ claims: composition
\* The newest build, which no persisted version halts.
NewestBuild == BuildOf(MaxMajor)

\* The rollup at seqno n as the newest build decodes it.
RollupAt(n) == UntypedState_decode(NewestBuild, consensus.rollups[n])

\* The encoded diffs of (n, m], in ascending seqno order.
DiffsBetween(n, m) == SubSeq(consensus.diffs, n + 1, m)

\* The rollup at n with the diffs of (n, m] applied.
Composed(n, m) ==
  UntypedState_apply_encoded_diffs(RollupAt(n).val, WriterCodecs.T, NewestBuild,
                                   DiffsBetween(n, m))

\* C11: for any chain of persisted states at seqnos N < ... < M of one shard,
\* decoding the rollup at N and applying the encoded diffs of (N, M] in
\* ascending seqno order yields a state equal to the one obtained by decoding
\* the rollup at M.
C11_RollupPlusDiffsIsLaterRollup ==
  \A n \in DOMAIN consensus.rollups : \A m \in DOMAIN consensus.rollups :
    n < m =>
      /\ RollupAt(n).outcome = "returned"
      /\ RollupAt(m).outcome = "returned"
      /\ Composed(n, m).outcome = "returned"
      /\ Composed(n, m).state = RollupAt(m).val

\* C11 witness: rollups at seqno 0 and at the last seqno, the diffs between
\* them committed by different builds, the later state holding a leased
\* reader and a batch.
C11_Witness ==
  /\ {0, MaxSeqNo} \subseteq DOMAIN consensus.rollups
  /\ Cardinality(Range(PersistedVersions)) > 1
  /\ RollupAt(MaxSeqNo).val.state.collections.leased_readers # <<>>
  /\ Composed(0, MaxSeqNo).state.state.seqno = MaxSeqNo

\* ------------------------------------------------------------ wire harness
\* What arrives from the wire: messages no encoder of this build wrote (old
\* writers, damaged data).  The reader converts each with the code's from_proto
\* or decode.
WireRollupBase ==
  TypedState_into_proto(
    StateWith([EmptyCollections EXCEPT !.trace = [since |-> {1}, batches |-> <<BatchA>>],
                                       !.leased_readers = [id \in {1} |-> LeasedA]]),
    WriterCodecs.K, WriterCodecs.V, WriterCodecs.T, WriterCodecs.D)

WireDiffBase ==
  StateDiff_into_proto(
    DiffWith(OldVersion, 0, <<Delta("Rollups", 1, Insert("r1")),
                              Delta("Since", Unit, Update({0}, {1}))>>))

\* applier_version strings: empty, well-formed, and not semver.
WireVersionsOk == {<<>>, VersionToString(OldVersion), VersionToString(Version(MaxMajor, 1, 0))}
WireVersionsBad == {<<1, 0>>, <<1, 0, 0, 0>>}

\* A wire batch whose since is ahead of the trace's since {1}.
WireBatchAhead == HollowBatch_into_proto(Batch({2}, <<>>))

\* Rollups that break a structural invariant: a missing trace, a missing
\* since, a batch without description, a batch ahead of the trace's since, a
\* leased reader without since.
WireRollupsBroken(base) ==
  {[base EXCEPT !.trace = None],
   [base EXCEPT !.trace.val.since = None],
   [base EXCEPT !.trace.val.spine = <<ProtoBatch(None, <<>>)>>],
   [base EXCEPT !.trace.val.spine = Append(@, WireBatchAhead)],
   [base EXCEPT !.leased_readers = [k \in DOMAIN @ |-> [@[k] EXCEPT !.since = None]]]}

\* Diffs that break a structural invariant: a chunk is missing, the arrays
\* differ in length, a field or a type is unknown, a chunk does not parse.
WireDiffsBroken(base) ==
  {[base EXCEPT !.field_diffs.val.data = SubSeq(@, 1, Len(@) - 1)],
   [base EXCEPT !.field_diffs.val.fields = Append(@, "Since")],
   [base EXCEPT !.field_diffs.val.fields[1] = "Unknown"],
   [base EXCEPT !.field_diffs.val.diff_types[1] = "Unknown"],
   [base EXCEPT !.field_diffs.val.data[2] = Garbage]}

WireInput(ty, proto, defect) ==
  [ty |-> ty, proto |-> proto, bytes |-> Encode(proto), defect |-> defect]

\* Bytes that do not parse; proto is the message their writer meant.
WireGarbage(ty, proto) ==
  [ty |-> ty, proto |-> proto, bytes |-> Garbage, defect |-> "parse"]

\* The version string of the newest build.
WireVersionNewest == VersionToString(Version(MaxMajor, 1, 0))

\* The rollups that differ from base in their version or by a defect, with the
\* defects also under the newest version, and bytes that do not parse.
WireRollupsOf(base) ==
  {WireInput("ProtoStateRollup", [base EXCEPT !.applier_version = v[1]], v[2]) :
     v \in (WireVersionsOk \X {"none"}) \cup (WireVersionsBad \X {"semver"})}
  \cup {WireInput("ProtoStateRollup", x, "structure") : x \in WireRollupsBroken(base)}
  \cup {WireInput("ProtoStateRollup", x, "structure") :
          x \in WireRollupsBroken([base EXCEPT !.applier_version = WireVersionNewest])}
  \cup {WireGarbage("ProtoStateRollup", [base EXCEPT !.applier_version = v]) :
          v \in WireVersionsOk}

\* The diffs that differ from base in their version or by a defect, and the
\* one without field diffs.
WireDiffsOf(base) ==
  {WireInput("ProtoStateDiff", [base EXCEPT !.applier_version = v[1]], v[2]) :
     v \in (WireVersionsOk \X {"none"}) \cup (WireVersionsBad \X {"semver"})}
  \cup {WireInput("ProtoStateDiff", [base EXCEPT !.field_diffs = None], "none")}
  \cup {WireInput("ProtoStateDiff", x, "structure") : x \in WireDiffsBroken(base)}
  \cup {WireInput("ProtoStateDiff", x, "structure") :
          x \in WireDiffsBroken([base EXCEPT !.applier_version = WireVersionNewest])}
  \cup {WireGarbage("ProtoStateDiff", [base EXCEPT !.applier_version = v]) :
          v \in WireVersionsOk}

WireRollups == WireRollupsOf(WireRollupBase)
WireDiffs == WireDiffsOf(WireDiffBase)

\* Wire hollow batches: parts and deprecated keys of every length up to 2, in
\* both orders, with and without description.
WireParts == {[key |-> "a", encoded_size_bytes |-> 5], [key |-> "c", encoded_size_bytes |-> 0]}
WireKeys == {"b", "d"}
\* Descriptions without lower, without upper, without since.
WireDescriptionsLacking(desc) ==
  {Some([desc EXCEPT !.lower = None]), Some([desc EXCEPT !.upper = None]),
   Some([desc EXCEPT !.since = None])}

WireHollowBatches ==
  {WireInput("ProtoHollowBatch",
             [desc |-> desc, parts |-> parts, len |-> 4, runs |-> runs,
              deprecated_keys |-> keys], "none") :
     desc \in {None, Some(ProtoDescription(Some(Antichain_into_proto({2}))))}
              \cup WireDescriptionsLacking(ProtoDescription(Some(Antichain_into_proto({2})))),
     parts \in SeqsUpTo(WireParts, 2), runs \in {<<>>, <<1>>},
     keys \in SeqsUpTo(WireKeys, 2)}

WireDebugs == {None, Some([hostname |-> "", purpose |-> ""]),
               Some([hostname |-> "host", purpose |-> "purpose"])}
WireSinces == {None} \cup {Some(a) : a \in ProtoAntichains}

\* Wire leased readers: with and without lease, debug and since.
WireLeasedReaders ==
  {WireInput("ProtoLeasedReaderState",
             [seqno |-> 1, since |-> since, last_heartbeat_timestamp_ms |-> 3,
              lease_duration_ms |-> lease, debug |-> debug], "none") :
     since \in WireSinces, lease \in {0, 7, DEFAULT_READ_LEASE_DURATION_MS},
     debug \in WireDebugs}

\* The 8 bytes of an opaque as the signed number the wire holds.
WireOpaques == {0, 1, -1, -Pow2(TsBits - 1)}

\* Wire critical readers: with and without since and debug.
WireCriticalReaders ==
  {WireInput("ProtoCriticalReaderState",
             [since |-> since, opaque |-> opaque, opaque_codec |-> "u64",
              debug |-> debug], "none") :
     since \in WireSinces, opaque \in WireOpaques, debug \in WireDebugs}

\* Wire writers: the token empty, well-formed or of another kind of id; with
\* and without upper and debug.
WireWriters ==
  {WireInput("ProtoWriterState",
             [last_heartbeat_timestamp_ms |-> 1, lease_duration_ms |-> 2,
              most_recent_write_token |-> token, most_recent_write_upper |-> upper,
              debug |-> debug], "none") :
     token \in {EmptyString, IdempotencyToken_into_proto(5), WriterId_into_proto(5)},
     upper \in WireSinces, debug \in WireDebugs}

\* Wire antichains: every list of up to MaxEntries elements, repeated ones and
\* negative ones included.
WireElements == {0, 1, 2, -1, -Pow2(TsBits - 1)}
WireAntichains ==
  {WireInput("ProtoU64Antichain", [elements |-> l], "none") :
     l \in SeqsUpTo(WireElements, MaxEntries)}

\* The five kinds of identifier and the two kinds of partial key.
IdKinds == {"ShardId", "LeasedReaderId", "CriticalReaderId", "WriterId", "IdempotencyToken"}
KeyKinds == {"PartialBatchKey", "PartialRollupKey"}

\* Wire strings: the empty one, and every first character (the five prefixes,
\* another one) followed by a UUID or by something else.
WireStringProtos ==
  {EmptyString}
  \cup {IdString(prefix, rest) : prefix \in {"s", "r", "c", "w", "i", "x"},
                                 rest \in {5, NotUuid}}

\* Each wire string, to be converted to each kind of identifier and key.
WireStrings ==
  {[ty |-> "String", proto |-> proto, bytes |-> Encode(proto), defect |-> "none",
    to |-> kind] : proto \in WireStringProtos, kind \in IdKinds \cup KeyKinds}

\* The single records converted with from_proto.
WireRecords ==
  WireHollowBatches \cup WireLeasedReaders \cup WireCriticalReaders \cup WireWriters
  \cup WireAntichains \cup WireStrings

\* The entry of one delta written after what proto holds, with the key and
\* value encoders of its field.
WireEntry(delta, proto) ==
  CASE delta.field = "Hostname" ->
         field_diff_into_proto("Hostname", delta.diff, proto, "()", "String")
    [] delta.field = "LastGcReq" ->
         field_diff_into_proto("LastGcReq", delta.diff, proto, "()", "SeqNo")
    [] delta.field = "Rollups" ->
         field_diff_into_proto("Rollups", delta.diff, proto, "SeqNo", "PartialRollupKey")
    [] delta.field = "LeasedReaders" ->
         field_diff_into_proto("LeasedReaders", delta.diff, proto,
                               "LeasedReaderId", "LeasedReaderState")
    [] delta.field = "CriticalReaders" ->
         field_diff_into_proto("CriticalReaders", delta.diff, proto,
                               "CriticalReaderId", "CriticalReaderState")
    [] delta.field = "Writers" ->
         field_diff_into_proto("Writers", delta.diff, proto, "WriterId", "WriterState")
    [] delta.field = "Since" ->
         field_diff_into_proto("Since", delta.diff, proto, "()", "Antichain")
    [] delta.field = "Spine" ->
         field_diff_into_proto("Spine", delta.diff, proto, "HollowBatch", "()")

RECURSIVE WireEntries(_, _, _)
\* The entries of deltas i.. written after what proto holds, in list order.
WireEntries(deltas, i, proto) ==
  IF i > Len(deltas) THEN proto
  ELSE WireEntries(deltas, i + 1, WireEntry(deltas[i], proto))

\* The deltas of the interleaved diffs: two of a scalar field, two of a map,
\* one of another scalar field and one of the spine.
WireDeltas ==
  {Delta("Hostname", Unit, Update("", "h")), Delta("Hostname", Unit, Update("h", "g")),
   Delta("Rollups", 1, Insert("r1")), Delta("Rollups", 1, Update("r1", "r2")),
   Delta("Since", Unit, Update({0}, {1})), Delta("Spine", BatchA, Insert(Unit))}

\* Every list of MaxEntries different deltas.
WireDeltaLists ==
  {l \in SeqsUpTo(WireDeltas, MaxEntries) :
     Len(l) = MaxEntries /\ \A i, j \in 1..Len(l) : l[i] = l[j] => i = j}

\* Wire diffs whose entries come in any order, not only the canonical one; the
\* input remembers the list its entries were written from.
WireInterleavedOf(base) ==
  {[ty |-> "ProtoStateDiff",
    proto |-> [base EXCEPT !.field_diffs = Some(WireEntries(l, 1, EmptyFieldDiffs))],
    bytes |-> Encode([base EXCEPT !.field_diffs = Some(WireEntries(l, 1, EmptyFieldDiffs))]),
    defect |-> "none",
    deltas |-> l] : l \in WireDeltaLists}

\* The fields that hold one value under the unit key.
ScalarFields == {"Hostname", "LastGcReq", "Since"}

\* A chunk that parses but is not the empty one an encoder writes for ().
StrayKey == Encode("stray")

\* The interleaved diffs that start with an entry of a scalar field, the key
\* chunk of that entry holding stray bytes.
WireStrayKeysOf(interleaved) ==
  {[x EXCEPT !.proto.field_diffs.val.data[1] = StrayKey,
             !.bytes = Encode([x.proto EXCEPT !.field_diffs.val.data[1] = StrayKey])] :
     x \in {y \in interleaved : y.deltas[1].field \in ScalarFields}}

WireInterleaved ==
  WireInterleavedOf(WireDiffBase) \cup WireStrayKeysOf(WireInterleavedOf(WireDiffBase))

\* The builds that read rollups and diffs: every version, the oldest included.
WireReaders ==
  {[build_version |-> b, T |-> WriterCodecs.T] : b \in Versions \cup {Version(0, 0, 0)}}
\* Who converts a single record: the build plays no part.
WireConverter == [build_version |-> OldVersion, T |-> WriterCodecs.T]

WireInit ==
  /\ input \in WireRollups \cup WireDiffs \cup WireInterleaved \cup WireRecords
  /\ reader \in IF input.ty \in {"ProtoStateRollup", "ProtoStateDiff"}
                 THEN WireReaders ELSE {WireConverter}
  /\ decoded = NotDecoded
  /\ call = NoCall
  /\ buf = Idle /\ untyped = Idle
  /\ proto_trace = Idle /\ rehydrated = Idle
  /\ consensus = Idle /\ procs = Idle /\ last_commit = Idle

\* UntypedState::<T>::decode of the bytes of a wire rollup.
DecodeWireRollup ==
  /\ input.ty = "ProtoStateRollup"
  /\ decoded = NotDecoded
  /\ decoded' = UntypedState_decode(reader.build_version, input.bytes)
  /\ UNCHANGED <<input, buf, reader, untyped, call, traceVars, shardVars>>

\* StateDiff::decode of the bytes of a wire diff.
DecodeWireDiff ==
  /\ input.ty = "ProtoStateDiff"
  /\ decoded = NotDecoded
  /\ decoded' = StateDiff_decode(reader.build_version, input.bytes)
  /\ UNCHANGED <<input, buf, reader, untyped, call, traceVars, shardVars>>

\* from_proto of a single wire record, to the type its message belongs to.
WireRustType ==
  CASE input.ty = "ProtoHollowBatch" -> "HollowBatch"
    [] input.ty = "ProtoLeasedReaderState" -> "LeasedReaderState"
    [] input.ty = "ProtoCriticalReaderState" -> "CriticalReaderState"
    [] input.ty = "ProtoU64Antichain" -> "Antichain"
    [] input.ty = "ProtoWriterState" -> "WriterState"
    [] input.ty = "String" -> input.to

ConvertWire ==
  /\ input.ty \notin {"ProtoStateRollup", "ProtoStateDiff"}
  /\ decoded = NotDecoded
  /\ decoded' = Returned(into_rust(WireRustType, input.proto))
  /\ UNCHANGED <<input, buf, reader, untyped, call, traceVars, shardVars>>

\* into_proto of the value a wire record converted to, and from_proto of what
\* that wrote.
ReconvertWire ==
  /\ input.ty \in {"ProtoHollowBatch", "ProtoLeasedReaderState",
                   "ProtoCriticalReaderState", "ProtoWriterState"}
  /\ decoded # NotDecoded
  /\ decoded.val.ok
  /\ call = NoCall
  /\ call' = [op |-> "reconvert",
              proto |-> into_proto(WireRustType, decoded.val.val),
              again |-> into_rust(WireRustType, into_proto(WireRustType, decoded.val.val))]
  /\ UNCHANGED <<input, buf, reader, decoded, untyped, traceVars, shardVars>>

WireNext == DecodeWireRollup \/ DecodeWireDiff \/ ConvertWire \/ ReconvertWire

SpecWire == WireInit /\ [][WireNext]_vars

\* --------------------------------------------------- claims: wire harness
\* from_proto of the wire rollup or diff.
WireFromProto ==
  IF input.ty = "ProtoStateRollup" THEN UntypedState_from_proto(input.proto)
  ELSE StateDiff_from_proto(input.proto)

\* A rollup or diff was decoded whose applier_version is not semver or whose
\* content breaks a structural invariant.
DecodedDefective ==
  /\ input.ty \in {"ProtoStateRollup", "ProtoStateDiff"}
  /\ input.defect \in {"semver", "structure"}
  /\ decoded # NotDecoded

\* C12 (as amended): for a rollup or diff whose applier_version string is
\* non-empty and not valid semver, or whose content violates a structural
\* invariant, from_proto yields the typed error (InvalidSemverVersion /
\* InvalidPersistState) and decode turns it into a panic: decode returns
\* nothing to its caller, neither a value nor an error.
C12_DecodePanicsOnInvalidState ==
  DecodedDefective =>
    /\ decoded.outcome = "panicked"
    /\ ~WireFromProto.ok
    /\ WireFromProto.err = IF input.defect = "semver" THEN "InvalidSemverVersion"
                           ELSE "InvalidPersistState"

\* C12 witness: a diff whose arrays do not fit and a rollup whose version is
\* not semver each panicked a reader new enough for any version.
C12_Witness ==
  /\ DecodedDefective
  /\ decoded.outcome = "panicked"
  /\ reader.build_version = Version(MaxMajor, 1, 0)
  /\ \/ input.ty = "ProtoStateDiff" /\ input.defect = "structure"
     \/ input.ty = "ProtoStateRollup" /\ input.defect = "semver"

\* C12 as stated: decode returns the typed error to its caller and the
\* process runs on.
C12_AsStated ==
  DecodedDefective =>
    /\ decoded.outcome = "returned"
    /\ ~decoded.val.ok
    /\ decoded.val.err \in {"InvalidSemverVersion", "InvalidPersistState"}

\* Part i of the migrated batch: the wire parts, then the deprecated keys.
MigratedPart(proto, i) ==
  IF i <= Len(proto.parts)
  THEN [key |-> proto.parts[i].key,
        encoded_size_bytes |-> proto.parts[i].encoded_size_bytes]
  ELSE [key |-> proto.deprecated_keys[i - Len(proto.parts)], encoded_size_bytes |-> 0]

\* A wire hollow batch that has its description, with its three frontiers,
\* was converted.
ConvertedBatch ==
  /\ input.ty = "ProtoHollowBatch"
  /\ input.proto.desc.some
  /\ input.proto.desc.val.lower.some
  /\ input.proto.desc.val.upper.some
  /\ input.proto.desc.val.since.some
  /\ decoded # NotDecoded

\* C13: for every wire hollow batch with parts P (possibly empty) and
\* deprecated_keys K, the decoded batch's parts are P in wire order followed by
\* one part per key of K in wire order, each with encoded_size_bytes = 0; desc
\* (as converted), len and runs are those of the wire record.
C13_DeprecatedKeysFollowParts ==
  ConvertedBatch =>
    /\ decoded.outcome = "returned"
    /\ decoded.val.ok
    /\ decoded.val.val.parts =
         [i \in 1..(Len(input.proto.parts) + Len(input.proto.deprecated_keys)) |->
            MigratedPart(input.proto, i)]
    /\ decoded.val.val.desc = Description_from_proto(input.proto.desc.val).val
    /\ decoded.val.val.len = input.proto.len
    /\ decoded.val.val.runs = input.proto.runs

\* C13 witness: a batch with a part and two different deprecated keys.
C13_Witness ==
  /\ ConvertedBatch
  /\ Len(input.proto.parts) = 1
  /\ Len(input.proto.deprecated_keys) = 2
  /\ input.proto.deprecated_keys[1] # input.proto.deprecated_keys[2]
  /\ Len(decoded.val.val.parts) = 3
  /\ decoded.val.val.parts[3].encoded_size_bytes = 0

\* The debug a wire record decodes to: its own, or the empty one when absent.
DebugOf(opt) ==
  IF opt.some THEN [hostname |-> opt.val.hostname, purpose |-> opt.val.purpose]
  ELSE [hostname |-> "", purpose |-> ""]

\* A wire leased reader that has its since was converted.
ConvertedLeasedReader ==
  /\ input.ty = "ProtoLeasedReaderState"
  /\ input.proto.since.some
  /\ decoded # NotDecoded

\* C14: a wire leased-reader record with lease_duration_ms = 0 decodes with
\* the default read-lease duration in milliseconds, a non-zero
\* lease_duration_ms is kept, an absent debug decodes to a debug with empty
\* hostname and purpose (a present one is kept), and seqno, since and
\* last_heartbeat_timestamp_ms are those of the wire record.
C14_LeasedReaderMigration ==
  ConvertedLeasedReader =>
    /\ decoded.val.ok
    /\ decoded.val.val.lease_duration_ms =
         IF input.proto.lease_duration_ms = 0 THEN DEFAULT_READ_LEASE_DURATION_MS
         ELSE input.proto.lease_duration_ms
    /\ decoded.val.val.debug = DebugOf(input.proto.debug)
    /\ decoded.val.val.seqno = input.proto.seqno
    /\ decoded.val.val.since = Antichain_from_proto(input.proto.since.val).val
    /\ decoded.val.val.last_heartbeat_timestamp_ms =
         input.proto.last_heartbeat_timestamp_ms

\* C14 witness: a record without lease and without debug was converted.
C14_Witness ==
  /\ ConvertedLeasedReader
  /\ input.proto.lease_duration_ms = 0
  /\ ~input.proto.debug.some
  /\ decoded.val.val.lease_duration_ms = DEFAULT_READ_LEASE_DURATION_MS
  /\ decoded.val.val.debug.hostname = ""

\* A wire writer whose token is empty or well-formed was converted.
ConvertedWriter ==
  /\ input.ty = "ProtoWriterState"
  /\ input.proto.most_recent_write_token.prefix \in {"", "i"}
  /\ decoded # NotDecoded

\* C15: a wire writer record with an empty most_recent_write_token decodes
\* with IdempotencyToken::SENTINEL (a non-empty one with its token), one with
\* an absent most_recent_write_upper decodes with the antichain {T::minimum()}
\* (a present one with its upper), each default whether or not the other one
\* applies; last_heartbeat_timestamp_ms, lease_duration_ms and a present debug
\* are those of the wire record.
C15_WriterMigration ==
  ConvertedWriter =>
    /\ decoded.val.ok
    /\ decoded.val.val.most_recent_write_token =
         IF input.proto.most_recent_write_token = EmptyString THEN SENTINEL
         ELSE input.proto.most_recent_write_token.uuid
    /\ decoded.val.val.most_recent_write_upper =
         IF input.proto.most_recent_write_upper.some
         THEN Antichain_from_proto(input.proto.most_recent_write_upper.val).val
         ELSE {TsMinimum}
    /\ decoded.val.val.last_heartbeat_timestamp_ms =
         input.proto.last_heartbeat_timestamp_ms
    /\ decoded.val.val.lease_duration_ms = input.proto.lease_duration_ms
    /\ decoded.val.val.debug = DebugOf(input.proto.debug)

\* C15 witness: a record with an empty token but a present upper other than
\* the minimum kept its upper and took the sentinel.
C15_Witness ==
  /\ ConvertedWriter
  /\ input.proto.most_recent_write_token = EmptyString
  /\ input.proto.most_recent_write_upper.some
  /\ decoded.val.val.most_recent_write_token = SENTINEL
  /\ decoded.val.val.most_recent_write_upper = {1}

\* The applier version of the decoded rollup or diff.
DecodedVersion ==
  IF input.ty = "ProtoStateRollup" THEN decoded.val.state.applier_version
  ELSE decoded.val.applier_version

\* An otherwise well-formed rollup or diff without applier_version was decoded.
DecodedUnversioned ==
  /\ input.ty \in {"ProtoStateRollup", "ProtoStateDiff"}
  /\ input.proto.applier_version = <<>>
  /\ input.defect = "none"
  /\ decoded # NotDecoded

\* C16: a rollup or diff whose applier_version string is empty decodes with
\* applier_version 0.0.0 and is accepted (decode returns, no halt) by a process
\* of every build_version.
C16_EmptyVersionIsOldest ==
  DecodedUnversioned =>
    /\ decoded.outcome = "returned"
    /\ DecodedVersion = Version(0, 0, 0)

\* C16 witness: the oldest build, 0.0.0 itself, decoded a diff without version.
C16_Witness ==
  /\ DecodedUnversioned
  /\ input.ty = "ProtoStateDiff"
  /\ reader.build_version = Version(0, 0, 0)
  /\ decoded.outcome = "returned"

\* ------------------------------------------------- claims: the codec gates
\* C17: check_ts_codec verifies only the timestamp codec: given a matching
\* shard id it returns the decoded State unchanged whenever the stored
\* ts_codec equals T's codec name, whatever the stored key, value and diff
\* codec names are, and returns CodecMismatchT carrying the requested and the
\* actual timestamp codec name otherwise.
C17_CheckTsCodecOnlyTs ==
  (call.op = "check_ts_codec" /\ call.shard_id = call.before.state.shard_id) =>
    /\ call.outcome = "returned"
    /\ call.result = IF reader.T = input.T THEN Ok(call.before.state)
                     ELSE CodecMismatchT(reader.T, input.T)

\* C17 witness: a state written with alien key, value and diff codecs passed
\* check_ts_codec.
C17_Witness ==
  /\ call.op = "check_ts_codec"
  /\ call.shard_id = call.before.state.shard_id
  /\ input.K = AlienCodec /\ input.V = AlienCodec /\ input.D = AlienCodec
  /\ reader.T = input.T
  /\ call.result.ok

\* The codec names the state was written with and those the call requests.
WrittenCodecs == <<input.K, input.V, input.T, input.D>>
RequestedCodecs == <<call.K, call.V, reader.T, call.D>>
\* The positions at which the requested codec is not the written one.
Replaced == {i \in 1..4 : RequestedCodecs[i] # WrittenCodecs[i]}

\* check_codecs with the matching shard id on a state written with the codecs
\* ("()", "()", "u64", "i64").
CheckedTestState ==
  /\ call.op = "check_codecs"
  /\ call.shard_id = call.before.state.shard_id
  /\ WrittenCodecs = <<WriterCodecs.K, WriterCodecs.V, WriterCodecs.T, WriterCodecs.D>>

\* C18 (as amended): for a state written with codecs ("()", "()", "u64",
\* "i64"), check_codecs with the original codecs returns Ok, and check_codecs
\* with an alien codec in place of one of the four returns a CodecMismatch
\* that carries the requested and the actual codec tuple, which differ at the
\* replaced position and nowhere else: requested.0 differs from actual.0
\* exactly when the key codec is the replaced one.
C18_MismatchAtReplacedPosition ==
  CheckedTestState =>
    /\ Replaced = {} => call.result.ok
    /\ Cardinality(Replaced) = 1 =>
         /\ call.result = CodecMismatch(RequestedCodecs, WrittenCodecs)
         /\ \A i \in 1..4 : call.result.requested[i] # call.result.actual[i]
                              <=> i \in Replaced

\* C18 witness: only the value codec was alien, and the mismatch carries equal
\* key codecs.
C18_Witness ==
  /\ CheckedTestState
  /\ Replaced = {2}
  /\ ~call.result.ok
  /\ call.result.requested[1] = call.result.actual[1]

\* C18 as stated: with an alien codec in place of any one of the four, the
\* mismatch's requested.0 differs from its actual.0.
C18_AsStated ==
  CheckedTestState =>
    /\ Replaced = {} => call.result.ok
    /\ Cardinality(Replaced) = 1 =>
         /\ call.result = CodecMismatch(RequestedCodecs, WrittenCodecs)
         /\ call.result.requested[1] # call.result.actual[1]

\* C20: check_codecs and check_ts_codec called with a shard id different from
\* the one stored in the decoded state fail an assertion before any codec name
\* is compared: they return neither Ok nor a codec-mismatch error, even when
\* the codecs also differ.
C20_ShardIdAssertedFirst ==
  (/\ call.op \in {"check_codecs", "check_ts_codec"}
   /\ call.shard_id # call.before.state.shard_id) =>
    /\ call.outcome = "panicked"
    /\ call.result = AssertFailed.val
    /\ untyped = NoState

\* C20 witness: check_ts_codec with another shard id and another timestamp
\* codec failed the assertion.
C20_Witness ==
  /\ call.op = "check_ts_codec"
  /\ call.shard_id # call.before.state.shard_id
  /\ reader.T # call.before.ts_codec
  /\ call.outcome = "panicked"

\* The one-character prefix of each kind of identifier.
PrefixOf(kind) ==
  CASE kind = "ShardId" -> "s"
    [] kind = "LeasedReaderId" -> "r"
    [] kind = "CriticalReaderId" -> "c"
    [] kind = "WriterId" -> "w"
    [] kind = "IdempotencyToken" -> "i"

\* A wire string was converted.
ConvertedString == input.ty = "String" /\ decoded # NotDecoded

\* C19: for each of the five identifier kinds (shard, leased reader, critical
\* reader, writer, idempotency token), decoding a string fails with
\* InvalidShardId carrying the offending string whenever the string lacks the
\* kind's one-character prefix or the remainder after the prefix does not
\* parse as a UUID, and succeeds with the UUID's 16 bytes otherwise; decoding a
\* partial batch key or partial rollup key never fails.
C19_IdDecodeFailsWithInvalidShardId ==
  ConvertedString =>
    IF input.to \in KeyKinds THEN decoded.val = Ok(input.proto)
    ELSE IF \/ input.proto.prefix # PrefixOf(input.to)
            \/ input.proto.uuid = NotUuid
         THEN decoded.val = [ok |-> FALSE, err |-> "InvalidShardId",
                             string |-> input.proto]
         ELSE decoded.val = Ok(input.proto.uuid)

\* C19 witness: a well-formed writer id was refused as a leased reader id, the
\* error carrying the string.
C19_Witness ==
  /\ ConvertedString
  /\ input.to = "LeasedReaderId"
  /\ input.proto = WriterId_into_proto(5)
  /\ ~decoded.val.ok
  /\ decoded.val.string = input.proto

\* ------------------------------------------------- rehydration, step by step
\* The merge requests a push returns: the spine asks for a merge of the pushed
\* batch with the one before it, when there is one.
merge_reqs(trace, batch) ==
  IF trace.batches = <<>> THEN <<>>
  ELSE <<[inputs |-> <<trace.batches[Len(trace.batches)], batch>>]>>

KeepsMergeReqs(handed, reqs) == handed \o reqs

\* `let _merge_reqs = ret.push_batch(batch)`: the requests are dropped.
IgnoreMergeReqs(handed, reqs) == handed

\* Trace::from_proto before its first statement; log is the calls made on ret,
\* handed the merge requests that leave the function.
Rehydrating(pc, ret, i, log, handed, result) ==
  [pc |-> pc, ret |-> ret, i |-> i, log |-> log, handed |-> handed, result |-> result]

StepInit ==
  /\ proto_trace \in ProtoTraces
  /\ rehydrated = Rehydrating("since", TraceDefault, 0, <<>>, <<>>, NotRun)
  /\ input = Idle /\ buf = Idle /\ reader = Idle
  /\ decoded = Idle /\ untyped = Idle /\ call = Idle
  /\ consensus = Idle /\ procs = Idle /\ last_commit = Idle

\* ret.downgrade_since(&proto.since.into_rust_if_some("since")?)
DowngradeSince ==
  /\ rehydrated.pc = "since"
  /\ LET since == AntichainIfSome(proto_trace.since)
     IN rehydrated' =
          IF ~since.ok
          THEN [rehydrated EXCEPT !.pc = "done", !.result = since]
          ELSE [rehydrated EXCEPT
                  !.pc = "loop", !.i = 1,
                  !.ret = downgrade_since(@, since.val),
                  !.log = Append(@, [op |-> "downgrade_since", arg |-> since.val])]
  /\ UNCHANGED <<proto_trace, codecVars, shardVars>>

\* One iteration of `for batch in proto.spine.into_iter()`.
PushBatch ==
  /\ rehydrated.pc = "loop"
  /\ rehydrated.i <= Len(proto_trace.spine)
  /\ LET batch == HollowBatch_from_proto(proto_trace.spine[rehydrated.i])
     IN rehydrated' =
          IF ~batch.ok
          THEN [rehydrated EXCEPT !.pc = "done", !.result = batch]
          ELSE IF SinceRejects(rehydrated.ret.since, batch.val.desc.since)
          THEN [rehydrated EXCEPT
                  !.pc = "done",
                  !.result = SinceError(rehydrated.ret.since, batch.val.desc.since)]
          ELSE [rehydrated EXCEPT
                  !.i = @ + 1,
                  !.ret = push_batch(@, batch.val),
                  !.handed = IgnoreMergeReqs(@, merge_reqs(rehydrated.ret, batch.val)),
                  !.log = Append(@, [op |-> "push_batch", arg |-> batch.val])]
  /\ UNCHANGED <<proto_trace, codecVars, shardVars>>

\* Ok(ret)
ReturnTrace ==
  /\ rehydrated.pc = "loop"
  /\ rehydrated.i > Len(proto_trace.spine)
  /\ rehydrated' = [rehydrated EXCEPT !.pc = "done", !.result = Ok(rehydrated.ret)]
  /\ UNCHANGED <<proto_trace, codecVars, shardVars>>

StepNext == DowngradeSince \/ PushBatch \/ ReturnTrace

SpecRehydrate == StepInit /\ [][StepNext]_vars

\* The calls Trace::from_proto makes on an accepted rollup of n batches.
ExpectedLog(n) ==
  [k \in 1..(n + 1) |->
     IF k = 1 THEN [op |-> "downgrade_since", arg |-> Since0]
     ELSE [op |-> "push_batch",
           arg |-> HollowBatch_from_proto(proto_trace.spine[k - 1]).val]]

\* C21: when Trace::from_proto accepts a rollup (since_0, B1..Bn), the trace's
\* since is first downgraded to since_0, then each of B1..Bn is pushed exactly
\* once in wire order, and the merge requests every push returns are dropped:
\* the returned trace holds the n batches as pushed and no merge request
\* leaves the function.  At every step the calls made so far are a prefix of
\* that sequence.
C21_DowngradeThenPushInWireOrder ==
  /\ (rehydrated.pc = "loop") =>
       /\ Len(rehydrated.log) = rehydrated.i
       /\ rehydrated.log = SubSeq(ExpectedLog(rehydrated.i - 1), 1, rehydrated.i)
  /\ rehydrated.handed = <<>>
  /\ rehydrated.result.ok =>
       /\ rehydrated.log = ExpectedLog(Len(proto_trace.spine))
       /\ rehydrated.result.val.since = Since0
       /\ Len(rehydrated.result.val.batches) = Len(proto_trace.spine)
       /\ rehydrated.result = Trace_from_proto(proto_trace)

\* C21 witness: an accepted rollup of two batches, the second of which made
\* the spine return a merge request.
C21_Witness ==
  /\ rehydrated.result.ok
  /\ Len(proto_trace.spine) = 2
  /\ merge_reqs([rehydrated.ret EXCEPT !.batches = SubSeq(@, 1, 1)],
                rehydrated.ret.batches[2]) # <<>>
  /\ rehydrated.log[3].op = "push_batch"

\* ------------------------------------------------ claims: field-diff arrays
\* The field_diffs record StateDiff::encode wrote.
EncodedFieldDiffs == buf.msg.field_diffs.val

RECURSIVE WeighedEntries(_, _, _, _)
\* The sum over entries i.. of single for Insert and Delete, double for Update.
WeighedEntries(diff_types, i, single, double) ==
  IF i > Len(diff_types) THEN 0
  ELSE (IF diff_types[i] = "Update" THEN double ELSE single)
       + WeighedEntries(diff_types, i + 1, single, double)

\* The number of deltas of a StateDiff, all fields together.
DeltaCount(d) ==
  Len(d.hostname) + Len(d.last_gc_req) + Len(d.rollups) + Len(d.leased_readers)
  + Len(d.critical_readers) + Len(d.writers) + Len(d.since) + Len(d.spine)

\* C22 (as amended): for every StateDiff, the field_diffs record produced by
\* the encoder holds one entry per delta, and its total number of data chunks
\* equals the sum over its entries of (2 if the entry is Insert or Delete, 3 if
\* it is Update): the key chunk of the entry and its one or two value chunks.
C22_ChunksCountKeysAndValues ==
  (input.kind = "diff" /\ buf # NoBuf) =>
    /\ Len(EncodedFieldDiffs.fields) = DeltaCount(input.diff)
    /\ Len(EncodedFieldDiffs.diff_types) = DeltaCount(input.diff)
    /\ Len(EncodedFieldDiffs.data) = WeighedEntries(EncodedFieldDiffs.diff_types, 1, 2, 3)

\* C22 witness: an encoded diff holding an Update entry and an Insert entry.
C22_Witness ==
  /\ input.kind = "diff"
  /\ buf # NoBuf
  /\ \E i, j \in 1..Len(EncodedFieldDiffs.diff_types) :
       /\ EncodedFieldDiffs.diff_types[i] = "Update"
       /\ EncodedFieldDiffs.diff_types[j] = "Insert"
  /\ Len(EncodedFieldDiffs.data) = 5

\* C22 as stated: the total number of data chunks equals the sum over the
\* entries of (1 if the entry is Insert or Delete, 2 if it is Update).
C22_AsStated ==
  (input.kind = "diff" /\ buf # NoBuf) =>
    Len(EncodedFieldDiffs.data) = WeighedEntries(EncodedFieldDiffs.diff_types, 1, 1, 2)

\* A wire diff written from a list of deltas in the order of the list was
\* decoded by a build that may read it.
DecodedInterleaved ==
  /\ input.ty = "ProtoStateDiff"
  /\ "deltas" \in DOMAIN input
  /\ decoded.outcome = "returned"

\* C23: the diff decoder does not rely on field order: a field_diffs record
\* whose entries are interleaved in any way decodes to the StateDiff whose
\* per-field lists are the entries of each field in wire order, so two records
\* with the same entries that differ only in how entries of different fields
\* are interleaved decode to equal StateDiffs.
C23_DecoderIgnoresFieldOrder ==
  DecodedInterleaved =>
    /\ decoded.val = DiffWith(OldVersion, 0, input.deltas)
    /\ \A other \in WireInterleaved :
         DiffWith(OldVersion, 0, other.deltas) = DiffWith(OldVersion, 0, input.deltas)
           => StateDiff_from_proto(other.proto).val = decoded.val

\* C23 witness: a decoded diff whose wire entries come in the reverse of the
\* canonical order: the spine's, the rollups', the hostname's.
C23_Witness ==
  /\ DecodedInterleaved
  /\ input.proto.field_diffs.val.fields = <<"Spine", "Rollups", "Hostname">>
  /\ Len(decoded.val.rollups) = 1
  /\ Len(decoded.val.hostname) = 1
  /\ Len(decoded.val.spine) = 1

\* The list a StateDiff holds for a scalar field.
ScalarList(d, field) ==
  CASE field = "Hostname" -> d.hostname
    [] field = "LastGcReq" -> d.last_gc_req
    [] field = "Since" -> d.since

\* The positions of the entries of a field in a field_diffs record.
EntriesOf(proto, field) == {i \in 1..Len(proto.fields) : proto.fields[i] = field}

\* The key chunk of entry i of a field_diffs record.
KeyChunk(proto, i) == proto.data[WeighedEntries(SubSeq(proto.diff_types, 1, i - 1), 1, 2, 3) + 1]

DescriptionLacks(desc) == ~desc.lower.some \/ ~desc.upper.some \/ ~desc.since.some

\* A wire batch lacks its description or one of the description's frontiers.
BatchLacks(batch) == ~batch.desc.some \/ DescriptionLacks(batch.desc.val)

\* A wire rollup lacks its trace, the trace's since, or a required
\* sub-message of one of its batches or leased readers.
RollupLacks(rollup) ==
  \/ ~rollup.trace.some
  \/ ~rollup.trace.val.since.some
  \/ \E i \in 1..Len(rollup.trace.val.spine) : BatchLacks(rollup.trace.val.spine[i])
  \/ \E k \in DOMAIN rollup.leased_readers : ~rollup.leased_readers[k].since.some

\* The wire record that was converted lacks a required sub-message.
ConvertedLacking ==
  /\ decoded # NotDecoded
  /\ CASE input.ty = "ProtoStateRollup" -> input.defect # "semver" /\ RollupLacks(input.proto)
       [] input.ty = "ProtoHollowBatch" -> BatchLacks(input.proto)
       [] input.ty \in {"ProtoLeasedReaderState", "ProtoCriticalReaderState"} ->
            ~input.proto.since.some
       [] OTHER -> FALSE

\* What from_proto made of the wire record.
Converted ==
  IF input.ty = "ProtoStateRollup" THEN UntypedState_from_proto(input.proto)
  ELSE decoded.val

\* C25: converting a wire record that lacks a required sub-message (a rollup
\* without trace, a trace without since, a hollow batch without desc, a
\* description without lower, upper or since, a leased or critical reader
\* without since) fails with InvalidPersistState: the result is that error
\* alone, with no value built from defaults or from the fields that were there.
C25_MissingSubMessageFails ==
  ConvertedLacking => Converted = Err("InvalidPersistState")

\* C25 witness: a critical reader without since but with debug, and a hollow
\* batch whose description lacks only its upper, were converted.
C25_Witness ==
  /\ ConvertedLacking
  /\ \/ input.ty = "ProtoCriticalReaderState" /\ input.proto.debug.some
     \/ /\ input.ty = "ProtoHollowBatch"
        /\ input.proto.desc.some
        /\ ~input.proto.desc.val.upper.some
        /\ input.proto.desc.val.since.some
  /\ ~Converted.ok

\* ------------------------------------------- claims: signed reinterpretation
\* A state was written and read back by a build that may read it.
RoundTripped == input.kind = "rollup" /\ decoded.outcome = "returned"

\* The wire number n holds the bits of the timestamp t read as a signed
\* integer: it lies in the signed range and agrees with t modulo 2^TsBits.
SignedBitsOf(n, t) ==
  /\ n >= -Pow2(TsBits - 1)
  /\ n < Pow2(TsBits - 1)
  /\ n % Pow2(TsBits) = t
  /\ (n < 0) <=> (t >= Pow2(TsBits - 1))

\* C26: antichain elements are encoded by reading the timestamp's bytes as a
\* signed integer and decoded by the inverse, so every timestamp value of the
\* width, those with the top bit set included (negative on the wire), comes
\* back as itself; the same holds for the opaque of a critical reader.
C26_SignedReinterpretationRoundTrips ==
  RoundTripped =>
    LET written == input.state.collections
        wire == buf.msg
        read == decoded.val.state.collections
    IN /\ read.trace.since = written.trace.since
       /\ \A i \in 1..Len(wire.trace.val.since.val.elements) :
            \E t \in written.trace.since :
              SignedBitsOf(wire.trace.val.since.val.elements[i], t)
       /\ Len(wire.trace.val.since.val.elements) = Cardinality(written.trace.since)
       /\ DOMAIN read.critical_readers = DOMAIN written.critical_readers
       /\ \A id \in DOMAIN written.critical_readers :
            /\ read.critical_readers[id].opaque = written.critical_readers[id].opaque
            /\ read.critical_readers[id].since = written.critical_readers[id].since
            /\ SignedBitsOf(wire.critical_readers[CriticalReaderId_into_proto(id)].opaque,
                            written.critical_readers[id].opaque)

\* C26 witness: a state whose since and whose critical reader's opaque are
\* the largest timestamp, both negative on the wire, came back equal.
C26_Witness ==
  /\ RoundTripped
  /\ input.state.collections.trace.since = {Pow2(TsBits) - 1}
  /\ buf.msg.trace.val.since.val.elements = <<-1>>
  /\ \E id \in DOMAIN input.state.collections.critical_readers :
       /\ input.state.collections.critical_readers[id].opaque = Pow2(TsBits) - 1
       /\ buf.msg.critical_readers[CriticalReaderId_into_proto(id)].opaque = -1
  /\ decoded.val.state.collections = input.state.collections

\* --------------------------------------------------- claims: re-encoding
\* The UntypedState decoded from the written state was encoded again.
ReEncoded == call.op = "into_proto" /\ input.kind = "rollup"

\* C27: re-encoding an UntypedState<T> writes the key, value and diff codec
\* names as decoded from the wire but the timestamp codec name of T, not the
\* stored ts_codec: from_proto followed by into_proto gives back the wire's
\* ts_codec exactly when it equals T's codec name; everything else of the
\* record is written as it was read.
C27_ReEncodeWritesReadersTsCodec ==
  ReEncoded =>
    /\ call.before.key_codec = buf.msg.key_codec
    /\ call.before.val_codec = buf.msg.val_codec
    /\ call.before.diff_codec = buf.msg.diff_codec
    /\ call.before.ts_codec = buf.msg.ts_codec
    /\ call.result.key_codec = buf.msg.key_codec
    /\ call.result.val_codec = buf.msg.val_codec
    /\ call.result.diff_codec = buf.msg.diff_codec
    /\ call.result.ts_codec = reader.T
    /\ (call.result.ts_codec = buf.msg.ts_codec) <=> (buf.msg.ts_codec = reader.T)
    /\ [call.result EXCEPT !.ts_codec = buf.msg.ts_codec] =
         State_into_proto(call.before.state, buf.msg.key_codec, buf.msg.val_codec,
                          buf.msg.diff_codec, buf.msg.ts_codec)

\* C27 witness: a state written with an alien key codec and the writer's
\* timestamp codec was re-encoded by a reader of another timestamp type.
C27_Witness ==
  /\ ReEncoded
  /\ buf.msg.key_codec = AlienCodec
  /\ buf.msg.ts_codec = WriterCodecs.T
  /\ reader.T = AlienCodec
  /\ call.result.key_codec = AlienCodec
  /\ call.result.ts_codec = AlienCodec

\* ------------------------------------------------ claims: order of decode
\* A wire rollup or diff was handed to decode.
DecodedWire ==
  /\ input.ty \in {"ProtoStateRollup", "ProtoStateDiff"}
  /\ decoded # NotDecoded

\* The applier_version string on the wire is that of a build newer than the
\* reader.
FromTheFuture ==
  /\ VersionParse(input.proto.applier_version).ok
  /\ VersionLt(reader.build_version, VersionParse(input.proto.applier_version).val)

\* The applier version of a converted rollup or diff.
DecodedVersionOf(converted) ==
  IF input.ty = "ProtoStateRollup" THEN converted.state.applier_version
  ELSE converted.applier_version

\* C28: UntypedState::decode and StateDiff::decode run wire parse, conversion
\* and applier-version comparison in that order: an input whose parse or
\* conversion fails panics whatever its applier_version and whoever reads it,
\* the halt occurs only for an input that parsed and converted and whose
\* version is newer than the reader's build, and every other input is returned
\* as converted.
C28_ParseConvertThenGate ==
  DecodedWire =>
    /\ IF ~Decode(input.bytes).ok \/ ~WireFromProto.ok
       THEN decoded.outcome = "panicked" /\ decoded.val = Panicked.val
       ELSE IF VersionLt(reader.build_version, DecodedVersionOf(WireFromProto.val))
            THEN decoded.outcome = "halted"
       ELSE decoded.outcome = "returned" /\ decoded.val = WireFromProto.val
    /\ (input.defect # "none") => decoded.outcome = "panicked"
    /\ (decoded.outcome = "halted") => (input.defect = "none" /\ FromTheFuture)

\* C28 witness: a diff of the newest version whose arrays do not fit, and
\* bytes of a rollup of the newest version that do not parse, each panicked
\* an older reader that would have halted on the version.
C28_Witness ==
  /\ DecodedWire
  /\ FromTheFuture
  /\ \/ input.ty = "ProtoStateDiff" /\ input.defect = "structure"
     \/ input.ty = "ProtoStateRollup" /\ input.defect = "parse"
  /\ decoded.outcome = "panicked"

\* ------------------------------------------------------ claims: migrations
\* A converted wire record was written again and converted again.
Reconverted == call.op = "reconvert"

\* The wire record uses a shape only older writers produce.
LegacyShape(ty, proto) ==
  CASE ty = "ProtoHollowBatch" -> proto.deprecated_keys # <<>>
    [] ty = "ProtoLeasedReaderState" -> ~proto.debug.some \/ proto.lease_duration_ms = 0
    [] ty = "ProtoCriticalReaderState" -> ~proto.debug.some
    [] ty = "ProtoWriterState" ->
         \/ ~proto.debug.some
         \/ ~proto.most_recent_write_upper.some
         \/ proto.most_recent_write_token = EmptyString

\* C29: migrations are idempotent and one-way: for every wire hollow batch,
\* leased reader, critical reader and writer record p that converts,
\* decode(encode(decode(p))) equals decode(p), and the re-encoded record never
\* uses a legacy shape (deprecated_keys is empty, debug and
\* most_recent_write_upper are present, no zero lease, no empty token).
C29_MigrationsIdempotentOneWay ==
  Reconverted =>
    /\ call.again = decoded.val
    /\ ~LegacyShape(input.ty, call.proto)

\* C29 witness: a record in a legacy shape (a batch with two deprecated keys,
\* a leased reader without debug and with a zero lease, a critical reader
\* without debug, or a writer without token and upper) was migrated, written
\* back and converted again to the same value.
C29_Witness ==
  /\ Reconverted
  /\ CASE input.ty = "ProtoHollowBatch" -> Len(input.proto.deprecated_keys) = 2
       [] input.ty = "ProtoLeasedReaderState" ->
            ~input.proto.debug.some /\ input.proto.lease_duration_ms = 0
       [] input.ty = "ProtoCriticalReaderState" -> ~input.proto.debug.some
       [] input.ty = "ProtoWriterState" ->
            /\ input.proto.most_recent_write_token = EmptyString
            /\ ~input.proto.most_recent_write_upper.some
  /\ call.again = decoded.val

\* ------------------------------------------------------ claims: antichains
\* A wire antichain was converted.
ConvertedAntichain == input.ty = "ProtoU64Antichain" /\ decoded # NotDecoded

\* The timestamps the wire list spells.
WireTimestamps ==
  {IF input.proto.elements[i] < 0 THEN input.proto.elements[i] + Pow2(TsBits)
   ELSE input.proto.elements[i] : i \in 1..Len(input.proto.elements)}

\* C30: decoding a wire antichain never fails and yields a set of pairwise
\* incomparable timestamps taken from the wire list: an element is kept exactly
\* when no other element of the list is strictly below it (for the totally
\* ordered timestamp the result holds only the minimum of a non-empty list),
\* and an empty wire list decodes to the empty antichain.
C30_AntichainDecodeKeepsMinimal ==
  ConvertedAntichain =>
    /\ decoded.outcome = "returned"
    /\ decoded.val.ok
    /\ decoded.val.val \subseteq WireTimestamps
    /\ \A x, y \in decoded.val.val : x # y => (~(x <= y) /\ ~(y <= x))
    /\ \A t \in WireTimestamps :
         (t \in decoded.val.val) <=> ~\E u \in WireTimestamps : u < t
    /\ (WireTimestamps # {}) =>
         decoded.val.val = {CHOOSE m \in WireTimestamps : \A t \in WireTimestamps : m <= t}
    /\ (input.proto.elements = <<>>) => decoded.val.val = {}

\* C30 witness: a list of three different elements, the first of them negative
\* on the wire (the largest timestamp), decoded to its minimum alone.
C30_Witness ==
  /\ ConvertedAntichain
  /\ Len(input.proto.elements) = 3
  /\ Cardinality(WireTimestamps) = 3
  /\ input.proto.elements[1] = -1
  /\ Cardinality(decoded.val.val) = 1

====
